---- MODULE Spec2Model ----
(***************************************************************************)
(* Webhook ingestion pipeline of action-repo: signature verification,     *)
(* event dispatch, payload extraction, validation and store insert        *)
(* (src/webhook_receiver.py, src/models/repository_data.py).              *)
(*                                                                         *)
(* Python values are tagged records ([t |-> "str", ...]); a Python str is *)
(* a sequence of tokens, where the tokens "/" and ":" are the only ones   *)
(* that contain those characters.  A raised exception is the value Raise. *)
(***************************************************************************)
EXTENDS Integers, Sequences, FiniteSets, TLC

VARIABLES
    secret,     \* os.getenv('GITHUB_WEBHOOK_SECRET', ''), a token sequence
    now,        \* the latest reading of the server clock (datetime.utcnow())
    store,      \* the MongoDB collection, documents in insertion order
    nextId,     \* source of fresh ObjectIds
    reqs,       \* the request contexts of the deliveries, by delivery number
    vin,        \* inputs of a direct call (SpecVerify, SpecRecord)
    vout,       \* its outcome
    query,      \* the latest read of the store and what it returned
    poller,     \* the DataDisplaySystem: its watermark and fetched rows
    conn        \* the MongoDBConnection singleton and its running connect()

vars == <<secret, now, store, nextId, reqs, vin, vout, query, poller, conn>>

----------------------------------------------------------------------------
(* Bounds *)

MaxRequests == 1      \* deliveries that arrive in one behaviour
MaxInFlight == 1      \* deliveries handled concurrently
MaxClock == 1         \* clock readings 0..MaxClock
MaxStored == 3        \* documents in the store when a behaviour of SpecStore starts
MaxLimit == 3         \* GET /recent?limit=0..MaxLimit

----------------------------------------------------------------------------
(* Python values *)

PyNone == [t |-> "none"]
Raise == [t |-> "raise"]
PyStr(s) == [t |-> "str", s |-> s]
PyInt(n) == [t |-> "int", n |-> n]
PyDict(d) == [t |-> "dict", d |-> d]
PyList(l) == [t |-> "list", l |-> l]
PyDatetime(n) == [t |-> "datetime", n |-> n]
PyObjectId(n) == [t |-> "oid", n |-> n]
EmptyDict == PyDict(<<>>)

\* bool(v)
Truthy(v) ==
    CASE v.t = "none" -> FALSE
      [] v.t = "str" -> v.s # <<>>
      [] v.t = "int" -> v.n # 0
      [] v.t = "dict" -> DOMAIN v.d # {}
      [] v.t = "list" -> v.l # <<>>
      [] OTHER -> TRUE

\* v.get(k, dflt); AttributeError when v is not a dict
Get(v, k, dflt) ==
    IF v.t # "dict" THEN Raise
    ELSE IF k \in DOMAIN v.d THEN v.d[k] ELSE dflt

\* k in v, for a dict v
HasKey(v, k) == v.t = "dict" /\ k \in DOMAIN v.d

\* str(v), as used by f-string interpolation
Fmt(v) ==
    CASE v.t = "str" -> v.s
      [] v.t = "int" -> <<ToString(v.n)>>
      [] v.t = "none" -> <<"None">>
      [] v.t = "dict" -> IF DOMAIN v.d = {} THEN <<"{}">> ELSE <<"{", ":", "}">>
      [] v.t = "list" -> IF v.l = <<>> THEN <<"[]">> ELSE <<"[", "]">>
      [] v.t = "oid" -> <<"oid", ToString(v.n)>>
      [] v.t = "datetime" -> <<"iso", ToString(v.n)>>
      [] OTHER -> <<"?">>

\* dict d with key k set to v
DictSet(d, k, v) == [x \in DOMAIN d \cup {k} |-> IF x = k THEN v ELSE d[x]]

----------------------------------------------------------------------------
(* Strings *)

S(tok) == PyStr(<<tok>>)
PyTrue == [t |-> "bool", b |-> TRUE]
PyFalse == [t |-> "bool", b |-> FALSE]

RefsHeads == <<"refs", "/", "heads", "/">>

\* s.startswith(p)
StartsWith(s, p) == Len(s) >= Len(p) /\ SubSeq(s, 1, Len(p)) = p

\* s.split('/')[0]
LastSegment_First(s) ==
    LET slashes == {i \in 1..Len(s) : s[i] = "/"}
        first == IF slashes = {} THEN Len(s) + 1
                 ELSE CHOOSE i \in slashes : \A j \in slashes : i <= j
    IN SubSeq(s, 1, first - 1)

\* s.split('/')[-1]
LastSegment(s) ==
    LET slashes == {i \in 1..Len(s) : s[i] = "/"}
        last == IF slashes = {} THEN 0 ELSE CHOOSE i \in slashes : \A j \in slashes : j <= i
    IN SubSeq(s, last + 1, Len(s))

\* all characters of s are ASCII
IsAscii(s) == \A i \in 1..Len(s) : s[i] # "\\xe9"

\* datetime.utcnow().isoformat() + 'Z'
IsoNowZ(clock) == PyStr(Fmt(PyDatetime(clock)) \o <<"Z">>)

----------------------------------------------------------------------------
(* Signature verifier *)

\* hmac.new(secret, payload_body, sha256).hexdigest(); distinct (key, body)
\* pairs give distinct digests
HexDigest(key, payload_body) == key \o <<"|", payload_body.name>>

\* hmac.compare_digest(a, b) on two str
compare_digest(a, b) ==
    IF ~IsAscii(a) \/ ~IsAscii(b) THEN Raise
    ELSE IF a = b THEN PyTrue ELSE PyFalse

\* a verifier that accepts any present header when a secret is set
verify_signature_NoCompare(payload_body, signature_header, env_secret) ==
    IF ~Truthy(signature_header) THEN PyFalse ELSE PyTrue

verify_signature(payload_body, signature_header, env_secret) ==
    IF ~Truthy(signature_header) THEN PyFalse
    ELSE IF env_secret = <<>> THEN PyTrue
    ELSE compare_digest(<<"sha256=">> \o HexDigest(env_secret, payload_body),
                        signature_header.s)

----------------------------------------------------------------------------
(* Payload extractors *)

\* an extractor that writes pushed_to as "{branch}:{repository}"
extract_push_data_Swapped(payload, clock) ==
    LET pusher_name == Get(Get(payload, "pusher", EmptyDict), "name", S("unknown"))
        commit_author == Get(Get(Get(payload, "head_commit", EmptyDict),
                                 "author", EmptyDict), "name", S("unknown"))
        fallback == pusher_name.t # "raise"
                    /\ (~Truthy(pusher_name) \/ pusher_name = S("unknown"))
        author == IF fallback THEN commit_author ELSE pusher_name
        repository == Get(Get(payload, "repository", EmptyDict), "name", S("unknown"))
        ref == Get(payload, "ref", PyStr(RefsHeads \o <<"main">>))
        branch == IF ref.t # "str" THEN Raise
                  ELSE IF StartsWith(ref.s, RefsHeads) THEN PyStr(LastSegment(ref.s))
                  ELSE ref
        head_ts == Get(Get(payload, "head_commit", EmptyDict), "timestamp", PyNone)
        timestamp_str == IF head_ts.t # "raise" /\ ~Truthy(head_ts)
                         THEN IsoNowZ(clock) ELSE head_ts
        sample == Get(Get(payload, "head_commit", EmptyDict), "message",
                      PyStr(<<"No commit message">>))
    IN IF Raise \in {pusher_name, author, repository, branch, head_ts, sample}
       THEN PyNone
       ELSE PyDict([author |-> author,
                    pushed_to |-> PyStr(Fmt(branch) \o <<":">> \o Fmt(repository)),
                    on |-> timestamp_str,
                    timestamp |-> PyDatetime(clock),
                    sample |-> sample])

\* an extractor without the fallback to the commit author
extract_push_data_NoFallback(payload, clock) ==
    LET pusher_name == Get(Get(payload, "pusher", EmptyDict), "name", S("unknown"))
        repository == Get(Get(payload, "repository", EmptyDict), "name", S("unknown"))
        ref == Get(payload, "ref", PyStr(RefsHeads \o <<"main">>))
        branch == IF ref.t # "str" THEN Raise
                  ELSE IF StartsWith(ref.s, RefsHeads) THEN PyStr(LastSegment(ref.s))
                  ELSE ref
        head_ts == Get(Get(payload, "head_commit", EmptyDict), "timestamp", PyNone)
        timestamp_str == IF head_ts.t # "raise" /\ ~Truthy(head_ts)
                         THEN IsoNowZ(clock) ELSE head_ts
        sample == Get(Get(payload, "head_commit", EmptyDict), "message",
                      PyStr(<<"No commit message">>))
    IN IF Raise \in {pusher_name, repository, branch, head_ts, sample}
       THEN PyNone
       ELSE PyDict([author |-> pusher_name,
                    pushed_to |-> PyStr(Fmt(repository) \o <<":">> \o Fmt(branch)),
                    on |-> timestamp_str,
                    timestamp |-> PyDatetime(clock),
                    sample |-> sample])

extract_push_data(payload, clock) ==
    LET pusher_name == Get(Get(payload, "pusher", EmptyDict), "name", S("unknown"))
        commit_author == Get(Get(Get(payload, "head_commit", EmptyDict),
                                 "author", EmptyDict), "name", S("unknown"))
        fallback == pusher_name.t # "raise"
                    /\ (~Truthy(pusher_name) \/ pusher_name = S("unknown"))
        author == IF fallback THEN commit_author ELSE pusher_name
        repository == Get(Get(payload, "repository", EmptyDict), "name", S("unknown"))
        ref == Get(payload, "ref", PyStr(RefsHeads \o <<"main">>))
        branch == IF ref.t # "str" THEN Raise
                  ELSE IF StartsWith(ref.s, RefsHeads) THEN PyStr(LastSegment(ref.s))
                  ELSE ref
        head_ts == Get(Get(payload, "head_commit", EmptyDict), "timestamp", PyNone)
        timestamp_str == IF head_ts.t # "raise" /\ ~Truthy(head_ts)
                         THEN IsoNowZ(clock) ELSE head_ts
        sample == Get(Get(payload, "head_commit", EmptyDict), "message",
                      PyStr(<<"No commit message">>))
    IN IF Raise \in {pusher_name, author, repository, branch, head_ts, sample}
       THEN PyNone
       ELSE PyDict([author |-> author,
                    pushed_to |-> PyStr(Fmt(repository) \o <<":">> \o Fmt(branch)),
                    on |-> timestamp_str,
                    timestamp |-> PyDatetime(clock),
                    sample |-> sample])

\* an extractor that never looks at updated_at
extract_pull_request_data_NoUpdated(payload, clock) ==
    LET action == Get(payload, "action", S("unknown"))
        pr == Get(payload, "pull_request", EmptyDict)
        author == Get(Get(pr, "user", EmptyDict), "login", S("unknown"))
        repository == Get(Get(payload, "repository", EmptyDict), "name", S("unknown"))
        base_branch == Get(Get(pr, "base", EmptyDict), "ref", S("main"))
        head_branch == Get(Get(pr, "head", EmptyDict), "ref", S("unknown"))
        created_at == Get(pr, "created_at", PyNone)
        timestamp_str == IF created_at.t # "raise" /\ ~Truthy(created_at)
                         THEN IsoNowZ(clock) ELSE created_at
        number == Get(pr, "number", S("unknown"))
        title == Get(pr, "title", PyStr(<<"No title">>))
    IN IF Raise \in {action, pr, author, repository, base_branch, head_branch,
                     created_at, number, title}
       THEN PyNone
       ELSE PyDict([author |-> author,
                    pushed_to |-> PyStr(Fmt(repository) \o <<":">> \o Fmt(base_branch)),
                    on |-> timestamp_str,
                    timestamp |-> PyDatetime(clock),
                    sample |-> PyStr(<<"PR #">> \o Fmt(number) \o <<":", " ">>
                                     \o Fmt(title) \o <<" (">> \o Fmt(action) \o <<")">>)])

\* an extractor without the try/except around its body
extract_pull_request_data_NoTry(payload, clock) ==
    LET action == Get(payload, "action", S("unknown"))
        pr == Get(payload, "pull_request", EmptyDict)
        author == Get(Get(pr, "user", EmptyDict), "login", S("unknown"))
        repository == Get(Get(payload, "repository", EmptyDict), "name", S("unknown"))
        base_branch == Get(Get(pr, "base", EmptyDict), "ref", S("main"))
        head_branch == Get(Get(pr, "head", EmptyDict), "ref", S("unknown"))
        created_at == Get(pr, "created_at", PyNone)
        updated_at == Get(pr, "updated_at", PyNone)
        created_or_updated == IF created_at.t # "raise" /\ Truthy(created_at)
                              THEN created_at ELSE updated_at
        timestamp_str == IF created_or_updated.t # "raise" /\ ~Truthy(created_or_updated)
                         THEN IsoNowZ(clock) ELSE created_or_updated
        number == Get(pr, "number", S("unknown"))
        title == Get(pr, "title", PyStr(<<"No title">>))
    IN IF Raise \in {action, pr, author, repository, base_branch, head_branch,
                     created_at, updated_at, number, title}
       THEN Raise
       ELSE PyDict([author |-> author,
                    pushed_to |-> PyStr(Fmt(repository) \o <<":">> \o Fmt(base_branch)),
                    on |-> timestamp_str,
                    timestamp |-> PyDatetime(clock),
                    sample |-> PyStr(<<"PR #">> \o Fmt(number) \o <<":", " ">>
                                     \o Fmt(title) \o <<" (">> \o Fmt(action) \o <<")">>)])

extract_pull_request_data(payload, clock) ==
    LET action == Get(payload, "action", S("unknown"))
        pr == Get(payload, "pull_request", EmptyDict)
        author == Get(Get(pr, "user", EmptyDict), "login", S("unknown"))
        repository == Get(Get(payload, "repository", EmptyDict), "name", S("unknown"))
        base_branch == Get(Get(pr, "base", EmptyDict), "ref", S("main"))
        head_branch == Get(Get(pr, "head", EmptyDict), "ref", S("unknown"))
        created_at == Get(pr, "created_at", PyNone)
        updated_at == Get(pr, "updated_at", PyNone)
        created_or_updated == IF created_at.t # "raise" /\ Truthy(created_at)
                              THEN created_at ELSE updated_at
        timestamp_str == IF created_or_updated.t # "raise" /\ ~Truthy(created_or_updated)
                         THEN IsoNowZ(clock) ELSE created_or_updated
        number == Get(pr, "number", S("unknown"))
        title == Get(pr, "title", PyStr(<<"No title">>))
    IN IF Raise \in {action, pr, author, repository, base_branch, head_branch,
                     created_at, updated_at, number, title}
       THEN PyNone
       ELSE PyDict([author |-> author,
                    pushed_to |-> PyStr(Fmt(repository) \o <<":">> \o Fmt(base_branch)),
                    on |-> timestamp_str,
                    timestamp |-> PyDatetime(clock),
                    sample |-> PyStr(<<"PR #">> \o Fmt(number) \o <<":", " ">>
                                     \o Fmt(title) \o <<" (">> \o Fmt(action) \o <<")">>)])

----------------------------------------------------------------------------
(* Validator and record store *)

required_fields == <<"author", "pushed_to", "on", "sample">>

\* validate_repository_data(data) -> (is_valid, message); "field not in data"
\* is a TypeError when data is None
\* a validator that reports the last offending field instead of the first
validate_repository_data_LastBad(data) ==
    LET bad == {i \in 1..Len(required_fields) :
                    ~HasKey(data, required_fields[i])
                    \/ data.d[required_fields[i]].t # "str"}
        last == CHOOSE i \in bad : \A j \in bad : i >= j
    IN IF data.t # "dict" THEN Raise
       ELSE IF bad = {} THEN [is_valid |-> TRUE, message |-> <<"Valid">>]
       ELSE IF ~HasKey(data, required_fields[last])
       THEN [is_valid |-> FALSE,
             message |-> <<"Missing required field: ", required_fields[last]>>]
       ELSE [is_valid |-> FALSE,
             message |-> <<"Field ", required_fields[last], " must be of type ", "str">>]

validate_repository_data(data) ==
    LET bad == {i \in 1..Len(required_fields) :
                    ~HasKey(data, required_fields[i])
                    \/ data.d[required_fields[i]].t # "str"}
        first == CHOOSE i \in bad : \A j \in bad : i <= j
    IN IF data.t # "dict" THEN Raise
       ELSE IF bad = {} THEN [is_valid |-> TRUE, message |-> <<"Valid">>]
       ELSE IF ~HasKey(data, required_fields[first])
       THEN [is_valid |-> FALSE,
             message |-> <<"Missing required field: ", required_fields[first]>>]
       ELSE [is_valid |-> FALSE,
             message |-> <<"Field ", required_fields[first], " must be of type ", "str">>]

\* an insert that stores the record as handed over, without the timestamp
\* default
insert_repository_data_NoStamp(coll, data, clock, db_ok, oid) ==
    LET missing == \E i \in 1..Len(required_fields) : ~HasKey(data, required_fields[i])
    IN IF data.t # "dict" \/ missing \/ ~db_ok
       THEN [coll |-> coll, result |-> PyNone]
       ELSE [coll |-> Append(coll, PyDict(DictSet(data.d, "_id", PyObjectId(oid)))),
             result |-> PyObjectId(oid)]

\* an insert that stores the document and then loses the identifier
insert_repository_data_LostId(coll, data, clock, db_ok, oid) ==
    IF data.t # "dict" \/ ~db_ok THEN [coll |-> coll, result |-> PyNone]
    ELSE [coll |-> Append(coll, PyDict(DictSet(data.d, "_id", PyObjectId(oid)))),
          result |-> PyNone]

\* RepositoryDataModel.insert_repository_data(data) on collection coll;
\* a store that writes with replace_one(..., upsert=True) on the newest
\* document instead of insert_one
insert_repository_data_Upsert(coll, data, clock, db_ok, oid) ==
    LET stamped == IF HasKey(data, "timestamp") THEN data
                   ELSE PyDict(DictSet(data.d, "timestamp", PyDatetime(clock)))
        missing == \E i \in 1..Len(required_fields) : ~HasKey(stamped, required_fields[i])
        doc == PyDict(DictSet(stamped.d, "_id", PyObjectId(oid)))
    IN IF data.t # "dict" \/ missing \/ ~db_ok
       THEN [coll |-> coll, result |-> PyNone]
       ELSE [coll |-> IF coll = <<>> THEN <<doc>> ELSE [coll EXCEPT ![Len(coll)] = doc],
             result |-> PyObjectId(oid)]

\* an insert without the required-field check of lines 41-44
insert_repository_data_NoCheck(coll, data, clock, db_ok, oid) ==
    LET stamped == IF HasKey(data, "timestamp") THEN data
                   ELSE PyDict(DictSet(data.d, "timestamp", PyDatetime(clock)))
    IN IF data.t # "dict" \/ ~db_ok
       THEN [coll |-> coll, result |-> PyNone]
       ELSE [coll |-> Append(coll, PyDict(DictSet(stamped.d, "_id", PyObjectId(oid)))),
             result |-> PyObjectId(oid)]

\* an insert whose check also asks for a field the validator does not know
insert_repository_data_ExtraField(coll, data, clock, db_ok, oid) ==
    LET stamped == IF HasKey(data, "timestamp") THEN data
                   ELSE PyDict(DictSet(data.d, "timestamp", PyDatetime(clock)))
        missing == \/ \E i \in 1..Len(required_fields) : ~HasKey(stamped, required_fields[i])
                   \/ ~HasKey(stamped, "event")
    IN IF data.t # "dict" \/ missing \/ ~db_ok
       THEN [coll |-> coll, result |-> PyNone]
       ELSE [coll |-> Append(coll, PyDict(DictSet(stamped.d, "_id", PyObjectId(oid)))),
             result |-> PyObjectId(oid)]

\* db_ok says whether collection.insert_one succeeds (it raises otherwise),
\* oid is the ObjectId the driver generates.
\* Result: the collection afterwards and the returned value.
insert_repository_data(coll, data, clock, db_ok, oid) ==
    LET stamped == IF HasKey(data, "timestamp") THEN data
                   ELSE PyDict(DictSet(data.d, "timestamp", PyDatetime(clock)))
        missing == \E i \in 1..Len(required_fields) : ~HasKey(stamped, required_fields[i])
    IN IF data.t # "dict" \/ missing \/ ~db_ok
       THEN [coll |-> coll, result |-> PyNone]
       ELSE [coll |-> Append(coll, PyDict(DictSet(stamped.d, "_id", PyObjectId(oid)))),
             result |-> PyObjectId(oid)]

\* the timestamp a stored document is sorted and filtered by
TimestampOf(doc) == doc.d.timestamp.n

\* the orders in which sort("timestamp", -1) can deliver the documents of
\* coll: newest first, documents of equal timestamp in any order
NewestFirst(coll) ==
    LET n == Len(coll)
        perms == {[i \in 1..n |-> coll[p[i]]] : p \in Permutations(1..n)}
    IN {s \in perms : \A i, j \in 1..n : i < j => TimestampOf(s[i]) >= TimestampOf(s[j])}

\* cursor.limit(limit) for limit >= 0: a limit of 0 is no limit
Limit(s, limit) ==
    IF limit = 0 \/ limit >= Len(s) THEN s ELSE SubSeq(s, 1, limit)

\* get_recent_data(limit=50)
RecentDefault == 50

\* RepositoryDataModel.get_recent_data(limit): the lists it can return;
\* db_ok says whether the find succeeds (it raises otherwise)
get_recent_data(coll, limit, db_ok) ==
    IF ~db_ok THEN {<<>>}
    ELSE {Limit(s, limit) : s \in NewestFirst(coll)}

\* a query with "$gte" in place of "$gt"
get_data_since_Gte(coll, since_timestamp, db_ok) ==
    IF ~db_ok THEN {<<>>}
    ELSE NewestFirst(SelectSeq(coll, LAMBDA doc : TimestampOf(doc) >= since_timestamp))

\* RepositoryDataModel.get_data_since(since_timestamp): the lists it can return
get_data_since(coll, since_timestamp, db_ok) ==
    IF ~db_ok THEN {<<>>}
    ELSE NewestFirst(SelectSeq(coll, LAMBDA doc : TimestampOf(doc) > since_timestamp))

----------------------------------------------------------------------------
(* Deliveries: the requests that reach POST /webhook *)

Unset == [t |-> "unset"]

PushPayload ==
    PyDict([ref |-> PyStr(RefsHeads \o <<"main">>),
            repository |-> PyDict([name |-> S("r")]),
            pusher |-> PyDict([name |-> S("u")]),
            head_commit |-> PyDict([message |-> S("m"),
                                    timestamp |-> S("2024-01-01T00:00:00Z"),
                                    author |-> PyDict([name |-> S("a")])])])

PullRequestPayload ==
    PyDict([action |-> S("opened"),
            repository |-> PyDict([name |-> S("r")]),
            pull_request |-> PyDict([number |-> PyInt(42),
                                     title |-> S("T"),
                                     user |-> PyDict([login |-> S("u")]),
                                     base |-> PyDict([ref |-> S("main")]),
                                     head |-> PyDict([ref |-> S("f")]),
                                     created_at |-> S("2024-01-01T00:00:00Z")])])

\* a ping-like payload with none of the fields the extractors read
BarePayload == PyDict([zen |-> S("z")])

\* author fields that are not strings
IntAuthorPayload ==
    PyDict([pusher |-> PyDict([name |-> PyInt(7)]),
            pull_request |-> PyDict([user |-> PyDict([login |-> PyInt(7)])])])

\* nested objects that are JSON null
NullNestedPayload == PyDict([pusher |-> PyNone, pull_request |-> PyNone])

\* request.data with its Content-Type; json is what json.loads makes of the
\* bytes (Raise for a ValueError)
Bodies ==
    {[name |-> "push", ctype |-> "json", json |-> PushPayload],
     [name |-> "pr", ctype |-> "json", json |-> PullRequestPayload],
     [name |-> "bare", ctype |-> "json", json |-> BarePayload],
     [name |-> "intauthor", ctype |-> "json", json |-> IntAuthorPayload],
     [name |-> "nullnested", ctype |-> "json", json |-> NullNestedPayload],
     [name |-> "list", ctype |-> "json", json |-> PyList(<<PyInt(1)>>)],
     [name |-> "emptyobj", ctype |-> "json", json |-> EmptyDict],
     [name |-> "garbage", ctype |-> "json", json |-> Raise],
     [name |-> "nobody", ctype |-> "none", json |-> Raise]}

BodyNamed(n) == CHOOSE b \in Bodies : b.name = n

Key == <<"k1">>
OtherKey == <<"k2">>

\* the X-Hub-Signature-256 header a sender holding key computes for body
Sign(key, body) == PyStr(<<"sha256=">> \o HexDigest(key, body))

NonAsciiHeader == PyStr(<<"sha256=", "\\xe9">>)

\* headers.get('X-Hub-Signature-256') of a delivery with body b: absent,
\* signed, signed over another body, not ASCII
SignatureHeaders(b) ==
    {PyNone, Sign(Key, b),
     Sign(Key, BodyNamed(IF b.name = "push" THEN "pr" ELSE "push")),
     NonAsciiHeader}

\* headers.get('X-GitHub-Event')
EventHeaders == {S("push"), S("pull_request"), S("issues"), PyNone}

FlaskVersions == {"old", "new"}

\* request.get_json(): a body that is not declared JSON gives None in
\* Flask < 2.1 and raises in later versions; undecodable JSON raises
get_json(body, version) ==
    IF body.ctype # "json" THEN (IF version = "old" THEN PyNone ELSE Raise)
    ELSE body.json

\* jsonify(body), status
Response(status, body) == [status |-> status, body |-> PyDict(body)]

IdleRequest ==
    [pc |-> "idle", body |-> Unset, signature |-> Unset, event |-> Unset,
     verified |-> Unset, event_type |-> Unset, payload |-> Unset, data |-> Unset,
     result_id |-> Unset, response |-> Unset, trace |-> <<>>, writes |-> 0]

Requests == 1..MaxRequests

InFlight == {r \in Requests : reqs[r].pc \notin {"idle", "closed"}}

\* the handler returns (or its except clause does): the response is final
Finish(q, stage, resp) ==
    [q EXCEPT !.pc = "done", !.response = resp, !.trace = Append(q.trace, stage)]

InternalError == Response(500, [error |-> PyStr(<<"Internal server error">>)])

----------------------------------------------------------------------------
(* handle_webhook, one operator per stage; q is the request context *)

\* a handler that computes the signature check and ignores a False result
verify_stage_NoReject(q, env_secret) ==
    LET ok == verify_signature(q.body, q.signature, env_secret)
    IN IF ok = Raise THEN Finish([q EXCEPT !.verified = ok], "verify", InternalError)
       ELSE [q EXCEPT !.pc = "parse", !.verified = ok,
                      !.trace = Append(q.trace, "verify")]

\* lines 108-110: signature check; the header value is not read again once
\* the check has passed
verify_stage(q, env_secret) ==
    LET ok == verify_signature(q.body, q.signature, env_secret)
    IN IF ok = Raise THEN Finish([q EXCEPT !.verified = ok], "verify", InternalError)
       ELSE IF ok = PyFalse
       THEN Finish([q EXCEPT !.verified = ok], "verify",
                   Response(401, [error |-> PyStr(<<"Invalid signature">>)]))
       ELSE [q EXCEPT !.pc = "parse", !.verified = ok, !.signature = Unset,
                      !.trace = Append(q.trace, "verify")]

\* a handler that acknowledges a request without payload
parse_stage_AckEmpty(q, version) ==
    LET payload == get_json(q.body, version)
    IN IF payload = Raise
       THEN Finish([q EXCEPT !.event_type = q.event], "parse", InternalError)
       ELSE IF ~Truthy(payload)
       THEN Finish([q EXCEPT !.event_type = q.event, !.payload = payload], "parse",
                   Response(200, [message |-> PyStr(<<"No payload received">>)]))
       ELSE [q EXCEPT !.pc = "dispatch", !.event_type = q.event, !.payload = payload,
                      !.trace = Append(q.trace, "parse")]

\* lines 113-117: event header and JSON body
parse_stage(q, version) ==
    LET payload == get_json(q.body, version)
    IN IF payload = Raise
       THEN Finish([q EXCEPT !.event_type = q.event], "parse", InternalError)
       ELSE IF ~Truthy(payload)
       THEN Finish([q EXCEPT !.event_type = q.event, !.payload = payload], "parse",
                   Response(400, [error |-> PyStr(<<"No payload received">>)]))
       ELSE [q EXCEPT !.pc = "dispatch", !.event_type = q.event, !.payload = payload,
                      !.trace = Append(q.trace, "parse")]

\* a dispatcher that treats every event type as an extractable one
dispatch_stage_NoElse(q) ==
    [q EXCEPT !.pc = "extract", !.data = PyNone, !.trace = Append(q.trace, "dispatch")]

\* lines 120-127: choice of the extractor
dispatch_stage(q) ==
    IF q.event_type \in {S("push"), S("pull_request")}
    THEN [q EXCEPT !.pc = "extract", !.data = PyNone, !.trace = Append(q.trace, "dispatch")]
    ELSE Finish([q EXCEPT !.data = PyNone], "dispatch",
                Response(200, [message |-> PyStr(<<"Event type ">> \o Fmt(q.event_type)
                                                 \o <<" not supported">>)]))

\* a handler that lets a top-level timestamp of the payload replace the
\* server's
extract_stage_ClientTimestamp(q, clock) ==
    LET made == IF q.event_type = S("push") THEN extract_push_data(q.payload, clock)
                ELSE extract_pull_request_data(q.payload, clock)
        data == IF Truthy(made) /\ HasKey(q.payload, "timestamp")
                THEN PyDict(DictSet(made.d, "timestamp", q.payload.d.timestamp))
                ELSE made
    IN IF ~Truthy(data)
       THEN Finish([q EXCEPT !.data = data], "extract",
                   Response(400, [error |-> PyStr(<<"Failed to extract data from payload">>)]))
       ELSE [q EXCEPT !.pc = "validate", !.data = data, !.trace = Append(q.trace, "extract")]

\* a handler that runs the push extractor on every event
extract_stage_AlwaysPush(q, clock) ==
    LET data == extract_push_data(q.payload, clock)
    IN IF ~Truthy(data)
       THEN Finish([q EXCEPT !.data = data], "extract",
                   Response(400, [error |-> PyStr(<<"Failed to extract data from payload">>)]))
       ELSE [q EXCEPT !.pc = "validate", !.data = data, !.trace = Append(q.trace, "extract")]

\* a handler without the check of the extractor's result
extract_stage_NoCheck(q, clock) ==
    LET data == IF q.event_type = S("push") THEN extract_push_data(q.payload, clock)
                ELSE extract_pull_request_data(q.payload, clock)
    IN [q EXCEPT !.pc = "validate", !.data = data, !.trace = Append(q.trace, "extract")]

\* lines 122/124 and 129-130: the extractor call and the check of its result
extract_stage(q, clock) ==
    LET data == IF q.event_type = S("push") THEN extract_push_data(q.payload, clock)
                ELSE extract_pull_request_data(q.payload, clock)
    IN IF ~Truthy(data)
       THEN Finish([q EXCEPT !.data = data], "extract",
                   Response(400, [error |-> PyStr(<<"Failed to extract data from payload">>)]))
       ELSE [q EXCEPT !.pc = "validate", !.data = data, !.trace = Append(q.trace, "extract")]

\* a handler that calls the validator and ignores is_valid
validate_stage_Ignore(q) ==
    IF validate_repository_data(q.data) = Raise THEN Finish(q, "validate", InternalError)
    ELSE [q EXCEPT !.pc = "insert", !.trace = Append(q.trace, "validate")]

\* a handler that rejects an invalid record without saying why
validate_stage_NoReason(q) ==
    LET v == validate_repository_data(q.data)
    IN IF v = Raise THEN Finish(q, "validate", InternalError)
       ELSE IF ~v.is_valid
       THEN Finish(q, "validate", Response(400, [error |-> PyStr(<<"Invalid data: ">>)]))
       ELSE [q EXCEPT !.pc = "insert", !.trace = Append(q.trace, "validate")]

\* lines 133-135: validation
validate_stage(q) ==
    LET v == validate_repository_data(q.data)
    IN IF v = Raise THEN Finish(q, "validate", InternalError)
       ELSE IF ~v.is_valid
       THEN Finish(q, "validate",
                   Response(400, [error |-> PyStr(<<"Invalid data: ">> \o v.message)]))
       ELSE [q EXCEPT !.pc = "insert", !.trace = Append(q.trace, "validate")]

\* a handler that skips the insert when a record with the same author,
\* pushed_to and sample is already stored, and answers with that record's id
insert_stage_Dedup(q, coll, clock, db_ok, oid) ==
    LET same == {i \in 1..Len(coll) :
                    /\ coll[i].d.author = q.data.d.author
                    /\ coll[i].d.pushed_to = q.data.d.pushed_to
                    /\ coll[i].d.sample = q.data.d.sample}
        ins == IF same # {}
               THEN [coll |-> coll, result |-> coll[CHOOSE i \in same : TRUE].d._id]
               ELSE insert_repository_data(coll, q.data, clock, db_ok, oid)
        q1 == [q EXCEPT !.result_id = ins.result,
                        !.writes = q.writes + (Len(ins.coll) - Len(coll))]
    IN [coll |-> ins.coll,
        req |-> IF Truthy(ins.result)
                THEN Finish(q1, "insert",
                            Response(200, [message |-> PyStr(<<"Webhook processed successfully">>),
                                           id |-> PyStr(Fmt(ins.result)),
                                           event_type |-> q.event_type]))
                ELSE Finish(q1, "insert",
                            Response(500, [error |-> PyStr(<<"Failed to store data">>)]))]

\* a handler that answers 200 whatever the insert returned
insert_stage_AlwaysOk(q, coll, clock, db_ok, oid) ==
    LET ins == insert_repository_data(coll, q.data, clock, db_ok, oid)
        q1 == [q EXCEPT !.result_id = ins.result,
                        !.writes = q.writes + (Len(ins.coll) - Len(coll))]
    IN [coll |-> ins.coll,
        req |-> Finish(q1, "insert",
                       Response(200, [message |-> PyStr(<<"Webhook processed successfully">>),
                                      id |-> PyStr(Fmt(ins.result)),
                                      event_type |-> q.event_type]))]

\* lines 138-148: store insert and the final response; gives the request
\* context and the collection afterwards
insert_stage(q, coll, clock, db_ok, oid) ==
    LET ins == insert_repository_data(coll, q.data, clock, db_ok, oid)
        q1 == [q EXCEPT !.result_id = ins.result,
                        !.writes = q.writes + (Len(ins.coll) - Len(coll))]
    IN [coll |-> ins.coll,
        req |-> IF Truthy(ins.result)
                THEN Finish(q1, "insert",
                            Response(200, [message |-> PyStr(<<"Webhook processed successfully">>),
                                           id |-> PyStr(Fmt(ins.result)),
                                           event_type |-> q.event_type]))
                ELSE Finish(q1, "insert",
                            Response(500, [error |-> PyStr(<<"Failed to store data">>)]))]

----------------------------------------------------------------------------
(* The ingestion endpoint as a state machine *)

Init ==
    /\ secret \in {<<>>, Key}
    /\ now = 0
    /\ store = <<>>
    /\ nextId = 1
    /\ reqs = [r \in Requests |-> IdleRequest]
    /\ vin = Unset
    /\ vout = Unset
    /\ query = Unset
    /\ poller = Unset
    /\ conn = Unset

\* a delivery arrives and a handler starts on it
Receive(r) ==
    /\ reqs[r].pc = "idle"
    /\ \A o \in Requests : o < r => reqs[o].pc # "idle"
    /\ Cardinality(InFlight) < MaxInFlight
    /\ \E b \in Bodies : \E sig \in SignatureHeaders(b) : \E ev \in EventHeaders :
           reqs' = [reqs EXCEPT ![r] = [IdleRequest EXCEPT !.pc = "verify", !.body = b,
                                                           !.signature = sig, !.event = ev]]
    /\ UNCHANGED <<secret, conn, now, store, nextId, vin, vout, query, poller>>

Verify(r) ==
    /\ reqs[r].pc = "verify"
    /\ reqs' = [reqs EXCEPT ![r] = verify_stage(reqs[r], secret)]
    /\ UNCHANGED <<secret, conn, now, store, nextId, vin, vout, query, poller>>

Parse(r) ==
    /\ reqs[r].pc = "parse"
    /\ \E version \in FlaskVersions :
           reqs' = [reqs EXCEPT ![r] = parse_stage(reqs[r], version)]
    /\ UNCHANGED <<secret, conn, now, store, nextId, vin, vout, query, poller>>

Dispatch(r) ==
    /\ reqs[r].pc = "dispatch"
    /\ reqs' = [reqs EXCEPT ![r] = dispatch_stage(reqs[r])]
    /\ UNCHANGED <<secret, conn, now, store, nextId, vin, vout, query, poller>>

\* the extractor reads the clock, which has not gone back since the last reading
Extract(r) ==
    /\ reqs[r].pc = "extract"
    /\ \E clock \in now..MaxClock :
         /\ now' = clock
         /\ reqs' = [reqs EXCEPT ![r] = extract_stage(reqs[r], clock)]
    /\ UNCHANGED <<secret, conn, store, nextId, vin, vout, query, poller>>

Validate(r) ==
    /\ reqs[r].pc = "validate"
    /\ reqs' = [reqs EXCEPT ![r] = validate_stage(reqs[r])]
    /\ UNCHANGED <<secret, conn, now, store, nextId, vin, vout, query, poller>>

\* an insert that waits until the poller's read is over
Insert_AfterPoll(r) ==
    /\ reqs[r].pc = "insert"
    /\ poller = Unset \/ poller.pc = "idle"
    /\ \E db_ok \in BOOLEAN :
         LET out == insert_stage(reqs[r], store, now, db_ok, nextId)
         IN /\ reqs' = [reqs EXCEPT ![r] = out.req]
            /\ store' = out.coll
            /\ nextId' = IF Len(out.coll) > Len(store) THEN nextId + 1 ELSE nextId
    /\ UNCHANGED <<secret, conn, now, vin, vout, query, poller>>

Insert(r) ==
    /\ reqs[r].pc = "insert"
    /\ \E db_ok \in BOOLEAN :
         LET out == insert_stage(reqs[r], store, now, db_ok, nextId)
         IN /\ reqs' = [reqs EXCEPT ![r] = out.req]
            /\ store' = out.coll
            /\ nextId' = IF Len(out.coll) > Len(store) THEN nextId + 1 ELSE nextId
    /\ UNCHANGED <<secret, conn, now, vin, vout, query, poller>>

\* the response has been sent and the request context is torn down
Close(r) ==
    /\ reqs[r].pc = "done"
    /\ reqs' = [reqs EXCEPT ![r] = [IdleRequest EXCEPT !.pc = "closed"]]
    /\ UNCHANGED <<secret, conn, now, store, nextId, vin, vout, query, poller>>

Next ==
    \/ \E r \in Requests : Receive(r)
    \/ \E r \in Requests : Verify(r)
    \/ \E r \in Requests : Parse(r)
    \/ \E r \in Requests : Dispatch(r)
    \/ \E r \in Requests : Extract(r)
    \/ \E r \in Requests : Validate(r)
    \/ \E r \in Requests : Insert(r)
    \/ \E r \in Requests : Close(r)

Spec == Init /\ [][Next]_vars

----------------------------------------------------------------------------
(* verify_signature on its own: one call on arbitrary inputs *)

Secrets == {<<>>, Key, OtherKey}

\* header values: absent, empty, not ASCII, malformed, digest without the
\* prefix, and the signatures of every body under both keys
AllSignatureHeaders ==
    {PyNone, PyStr(<<>>), NonAsciiHeader, PyStr(<<"sha256=">>), S("garbage")}
    \cup {Sign(k, b) : k \in {Key, OtherKey}, b \in Bodies}
    \cup {PyStr(HexDigest(Key, b)) : b \in Bodies}

InitVerify ==
    /\ secret \in Secrets
    /\ now = 0
    /\ store = <<>>
    /\ nextId = 1
    /\ reqs = [r \in Requests |-> IdleRequest]
    /\ vin \in [body : Bodies, signature : AllSignatureHeaders]
    /\ vout = Unset
    /\ query = Unset
    /\ poller = Unset
    /\ conn = Unset

VerifyCall ==
    /\ vout = Unset
    /\ vout' = verify_signature(vin.body, vin.signature, secret)
    /\ UNCHANGED <<secret, conn, now, store, nextId, reqs, vin, query, poller>>

NextVerify == VerifyCall

SpecVerify == InitVerify /\ [][NextVerify]_vars

----------------------------------------------------------------------------
(* Properties of the signature verifier *)

\* C1: with no secret configured, verify_signature returns True for every
\* body and every signature header, an absent header included.
C1_NoSecretAlwaysTrue ==
    (vout # Unset /\ secret = <<>>) => vout = PyTrue

\* C3: with a secret configured, verify_signature returns True exactly when
\* the header is present and is "sha256=" followed by the hex HMAC of the
\* body under the secret; it returns False for an absent header and for the
\* signature of any other body.
C3_SecretExactMatch ==
    (vout # Unset /\ secret # <<>>) =>
        /\ vout = PyTrue <=> /\ vin.signature.t = "str"
                             /\ vin.signature.s = <<"sha256=">> \o HexDigest(secret, vin.body)
        /\ vin.signature = PyNone => vout = PyFalse
        /\ \A b \in Bodies : (b # vin.body /\ vin.signature = Sign(secret, b)) => vout = PyFalse

C3_Witness ==
    /\ secret # <<>>
    /\ vin # Unset
    /\ vin.signature = Sign(secret, vin.body)
    /\ vout = PyTrue

----------------------------------------------------------------------------
(* Properties of the ingestion endpoint *)

Done(r) == reqs[r].pc = "done"

Status(r) == reqs[r].response.status

\* what the signature check of request r returned
Verdict(r) == reqs[r].verified

\* the JSON body of the delivery is present and parses to a non-empty value
HasPayload(r) ==
    /\ reqs[r].body.ctype = "json"
    /\ reqs[r].body.json # Raise
    /\ Truthy(reqs[r].body.json)

\* the body of the delivery is missing or is not JSON
NoJson(r) == reqs[r].body.ctype # "json" \/ reqs[r].body.json = Raise

Accepted(q) ==
    /\ q.pc = "done"
    /\ q.response.status = 200
    /\ HasKey(q.response.body, "id")
    /\ HasKey(q.response.body, "event_type")

StageOrder == <<"verify", "parse", "dispatch", "extract", "validate", "insert">>

Ran(q, stage) == \E i \in 1..Len(q.trace) : q.trace[i] = stage

\* C2: with no secret configured, a well-formed push or pull_request
\* delivery that has the X-GitHub-Event header and no X-Hub-Signature-256
\* header is answered with status 200.
C2_UnsignedDeliveryAccepted ==
    \A r \in Requests :
        (/\ Done(r)
         /\ secret = <<>>
         /\ reqs[r].signature = PyNone
         /\ \/ reqs[r].body.name = "push" /\ reqs[r].event = S("push")
            \/ reqs[r].body.name = "pr" /\ reqs[r].event = S("pull_request"))
        => Status(r) = 200

C5_MalformedBodyIs400 ==
    \A r \in Requests :
        (Done(r) /\ Verdict(r) = PyTrue /\ NoJson(r)) =>
            (Status(r) = 400 /\ reqs[r].writes = 0)

\* C6: a delivery that passes the signature check, has a non-empty JSON body
\* and an event type other than push and pull_request (or none) ends with
\* status 200, no extractor has run and the store has not been written.
C6_UnsupportedEventAcknowledged ==
    \A r \in Requests :
        (/\ Done(r)
         /\ Verdict(r) = PyTrue
         /\ HasPayload(r)
         /\ reqs[r].event \notin {S("push"), S("pull_request")})
        => /\ Status(r) = 200
           /\ ~Ran(reqs[r], "extract")
           /\ reqs[r].data = PyNone
           /\ reqs[r].writes = 0

C6_Witness ==
    \E r \in Requests :
        /\ Done(r)
        /\ reqs[r].event = PyNone
        /\ reqs[r].body.name = "push"
        /\ reqs[r].trace = <<"verify", "parse", "dispatch">>
        /\ Status(r) = 200

\* C7: the store changes in a step exactly when a request reaches the
\* accepted terminal (200 with id and event_type) in that step, and then by
\* exactly one appended record; a step in which a request reaches any other
\* terminal, or none, leaves the store as it was.
C7_Step ==
    LET finishing == {r \in Requests : reqs[r].pc # "done" /\ reqs'[r].pc = "done"}
        accepting == {r \in finishing : Accepted(reqs'[r])}
    IN /\ accepting = {} => store' = store
       /\ accepting # {} => /\ Cardinality(accepting) = 1
                            /\ Len(store') = Len(store) + 1
                            /\ SubSeq(store', 1, Len(store)) = store
       /\ \A r \in finishing : reqs'[r].writes = (IF r \in accepting THEN 1 ELSE 0)

C7_MutationIffAccepted == [][C7_Step]_vars

C7_Witness ==
    \E r \in Requests :
        /\ Accepted(reqs[r])
        /\ reqs[r].writes = 1
        /\ Len(store) = 1
        /\ store[1].d._id = reqs[r].result_id

\* C8: the stages of a request run in the order verify, parse, dispatch,
\* extract, validate, insert, none skipped; the store insert is reached only
\* with a passed signature check, a record from the extractor and that
\* record accepted by the validator.
C8_StageOrder ==
    \A r \in Requests :
        /\ reqs[r].trace = SubSeq(StageOrder, 1, Len(reqs[r].trace))
        /\ (reqs[r].pc = "insert" \/ Ran(reqs[r], "insert")) =>
               /\ SubSeq(reqs[r].trace, 1, 5) = SubSeq(StageOrder, 1, 5)
               /\ Verdict(r) = PyTrue
               /\ Truthy(reqs[r].data)
               /\ reqs[r].data \in {extract_push_data(reqs[r].payload, c) : c \in 0..now}
                                   \cup {extract_pull_request_data(reqs[r].payload, c) : c \in 0..now}
               /\ validate_repository_data(reqs[r].data).is_valid

C8_Witness ==
    \E r \in Requests :
        /\ Done(r)
        /\ reqs[r].trace = StageOrder
        /\ reqs[r].event = S("pull_request")
        /\ reqs[r].writes = 1

\* C9: when the store insert returns no identifier the request ends with
\* status 500; when it returns an identifier the request ends with status
\* 200 and the body carries that identifier as a string and the request's
\* event type.
C9_InsertResultDecidesResponse ==
    \A r \in Requests :
        (Done(r) /\ Ran(reqs[r], "insert")) =>
            IF reqs[r].result_id = PyNone
            THEN Status(r) = 500
            ELSE /\ Status(r) = 200
                 /\ reqs[r].result_id.t = "oid"
                 /\ reqs[r].response.body.d.id = PyStr(<<"oid", ToString(reqs[r].result_id.n)>>)
                 /\ reqs[r].response.body.d.event_type = reqs[r].event
                 /\ \E i \in 1..Len(store) : store[i].d._id = reqs[r].result_id

C9_Witness ==
    \E r \in Requests :
        /\ Done(r)
        /\ Ran(reqs[r], "insert")
        /\ reqs[r].result_id = PyNone
        /\ Status(r) = 500

\* C10: when the extractor of a push or pull_request delivery returns no
\* record the request ends with status 400 "Failed to extract data from
\* payload", the validator has not run and the store has not been written.
C10_ExtractionFailureIs400 ==
    \A r \in Requests :
        (/\ Done(r)
         /\ Verdict(r) = PyTrue
         /\ HasPayload(r)
         /\ \/ reqs[r].event = S("push")
               /\ extract_push_data(reqs[r].body.json, now) = PyNone
            \/ reqs[r].event = S("pull_request")
               /\ extract_pull_request_data(reqs[r].body.json, now) = PyNone)
        => /\ Status(r) = 400
           /\ reqs[r].response.body.d.error = PyStr(<<"Failed to extract data from payload">>)
           /\ ~Ran(reqs[r], "validate")
           /\ reqs[r].writes = 0

C10_Witness ==
    \E r \in Requests :
        /\ Done(r)
        /\ reqs[r].event = S("push")
        /\ reqs[r].body.name = "nullnested"
        /\ reqs[r].trace = <<"verify", "parse", "dispatch", "extract">>
        /\ Status(r) = 400

\* s contains the token sequence part
Contains(s, part) ==
    \E i \in 0..(Len(s) - Len(part)) : SubSeq(s, i + 1, i + Len(part)) = part

\* C11: when the validator rejects the extracted record the request ends
\* with status 400, the error text contains the validator's reason, the
\* insert stage has not run and the store has not been written.
C11_ValidationFailureIs400 ==
    \A r \in Requests :
        (/\ Done(r)
         /\ Ran(reqs[r], "extract")
         /\ Truthy(reqs[r].data)
         /\ ~validate_repository_data(reqs[r].data).is_valid)
        => /\ Status(r) = 400
           /\ HasKey(reqs[r].response.body, "error")
           /\ Contains(reqs[r].response.body.d.error.s,
                       validate_repository_data(reqs[r].data).message)
           /\ ~Ran(reqs[r], "insert")
           /\ reqs[r].writes = 0

C11_Witness ==
    \E r \in Requests :
        /\ Done(r)
        /\ reqs[r].body.name = "intauthor"
        /\ reqs[r].trace = <<"verify", "parse", "dispatch", "extract", "validate">>
        /\ reqs[r].response.body.d.error
             = PyStr(<<"Invalid data: ", "Field ", "author", " must be of type ", "str">>)

----------------------------------------------------------------------------
(* Extraction to storage over a space of payload shapes: a delivery that   *)
(* has passed the signature check and has been parsed                      *)

Absent == [t |-> "absent"]

\* the JSON object with the fields of f that are not Absent
Obj(f) == PyDict([k \in {x \in DOMAIN f : f[x] # Absent} |-> f[k]])

FeatureRef == PyStr(RefsHeads \o <<"feature", "/", "x">>)

PushPayloads ==
    {Obj([pusher |-> pusher, head_commit |-> head_commit, repository |-> repository,
          ref |-> ref, timestamp |-> top]) :
        pusher \in {Absent, PyNone, PyDict([name |-> S("u")]), PyDict([name |-> PyStr(<<>>)]),
                    PyDict([name |-> S("unknown")]), PyDict([name |-> PyInt(7)]),
                    PyDict([name |-> PyNone])},
        head_commit \in {Absent, PyNone,
                         PyDict([message |-> S("m"), timestamp |-> S("2024-01-01T00:00:00Z"),
                                 author |-> PyDict([name |-> S("a")])]),
                         PyDict([message |-> PyStr(<<>>), timestamp |-> PyStr(<<>>),
                                 author |-> PyDict([name |-> PyStr(<<>>)])]),
                         PyDict([message |-> PyNone, timestamp |-> PyNone])},
        repository \in {Absent, PyDict([name |-> S("r")]), PyDict([name |-> PyNone])},
        ref \in {Absent, PyNone, PyStr(RefsHeads \o <<"main">>), FeatureRef, S("main"),
                 PyStr(<<"refs", "/", "tags", "/", "v1">>), PyStr(<<"a", ":", "b">>)},
        top \in {Absent, S("1999-12-31T23:59:59Z")}}

PullRequests ==
    {Absent, PyNone,
     PyDict([number |-> PyInt(42), title |-> S("T"), user |-> PyDict([login |-> S("u")]),
             base |-> PyDict([ref |-> S("main")]), head |-> PyDict([ref |-> S("f")]),
             created_at |-> S("2024-01-01T00:00:00Z"),
             updated_at |-> S("2024-01-02T00:00:00Z")]),
     PyDict([number |-> PyInt(7), title |-> S("T"), user |-> PyDict([login |-> S("u")]),
             base |-> PyDict([ref |-> S("dev")]), updated_at |-> S("2024-01-02T00:00:00Z")]),
     PyDict([user |-> PyDict([login |-> S("u")])]),
     PyDict([user |-> PyDict([login |-> PyStr(<<>>)]), title |-> PyStr(<<>>),
             created_at |-> PyStr(<<>>), updated_at |-> PyStr(<<>>)]),
     PyDict([user |-> PyDict([login |-> PyInt(7)])]),
     PyDict([user |-> PyDict([login |-> S("u")]), title |-> PyNone, number |-> PyNone,
             base |-> PyDict([ref |-> PyNone])]),
     PyDict([user |-> PyNone]),
     PyDict([user |-> PyDict([login |-> S("u")]), created_at |-> PyStr(<<>>),
             updated_at |-> S("2024-01-02T00:00:00Z")]),
     PyDict([user |-> PyDict([login |-> S("u")]), created_at |-> PyNone,
             updated_at |-> S("2024-01-02T00:00:00Z")])}

PullRequestPayloads ==
    {Obj([action |-> action, pull_request |-> pr, repository |-> repository,
          timestamp |-> top]) :
        action \in {Absent, PyNone, S("opened")},
        pr \in PullRequests,
        repository \in {Absent, PyDict([name |-> S("r")]), PyDict([name |-> PyNone])},
        top \in {Absent, S("1999-12-31T23:59:59Z")}}

\* JSON bodies that are not objects: an array, a string, a number
NonObjectPayloads == {PyList(<<PyInt(1)>>), S("abc"), PyInt(5)}

\* the request context of a delivery with JSON payload p and event header ev
\* once lines 108-117 have run (no secret, some signature header present)
Parsed(p, ev) ==
    parse_stage(verify_stage([IdleRequest EXCEPT
                                 !.pc = "verify",
                                 !.body = [name |-> "generated", ctype |-> "json", json |-> p],
                                 !.signature = S("sha256=x"),
                                 !.event = ev],
                             <<>>),
                "new")

InitIngest ==
    /\ secret = <<>>
    /\ now = 0
    /\ store = <<>>
    /\ nextId = 1
    /\ \E p \in PushPayloads \cup PullRequestPayloads \cup NonObjectPayloads :
         \E ev \in {S("push"), S("pull_request")} :
           /\ Truthy(p)
           /\ \/ ev = S("push") /\ p \in PushPayloads \cup NonObjectPayloads
              \/ ev = S("pull_request") /\ p \in PullRequestPayloads \cup NonObjectPayloads
           /\ reqs = [r \in Requests |-> IF r = 1 THEN Parsed(p, ev) ELSE IdleRequest]
    /\ vin = Unset
    /\ vout = Unset
    /\ query = Unset
    /\ poller = Unset
    /\ conn = Unset

NextIngest ==
    \/ \E r \in Requests : Dispatch(r)
    \/ \E r \in Requests : Extract(r)
    \/ \E r \in Requests : Validate(r)
    \/ \E r \in Requests : Insert(r)
    \/ \E r \in Requests : Close(r)

SpecIngest == InitIngest /\ [][NextIngest]_vars

----------------------------------------------------------------------------
(* Properties of the stored records *)

\* the value at obj[key], or dflt when obj is absent or has no such key
Field(obj, key, dflt) == IF HasKey(obj, key) THEN obj.d[key] ELSE dflt

\* the document request r stored
StoredBy(r) == CHOOSE doc \in {store[i] : i \in 1..Len(store)} : doc.d._id = reqs[r].result_id

\* C12: every stored record has author, pushed_to, on and sample, each a
\* non-empty string, whatever the payload was.
C12_StoredFieldsNonEmpty ==
    \A i \in 1..Len(store) : \A k \in 1..Len(required_fields) :
        /\ HasKey(store[i], required_fields[k])
        /\ store[i].d[required_fields[k]].t = "str"
        /\ store[i].d[required_fields[k]].s # <<>>

\* C13: the timestamp of a stored record is the clock reading the server
\* took while handling the request, whatever the payload carries (a commit
\* timestamp, created_at, a top-level timestamp) and whatever on is.
C13_TimestampIsServerClock ==
    /\ \A i \in 1..Len(store) : store[i].d.timestamp = PyDatetime(now)
    /\ \A r \in Requests :
         reqs[r].pc \in {"validate", "insert"} => reqs[r].data.d.timestamp = PyDatetime(now)

C13_Witness ==
    \E r \in Requests :
        /\ Accepted(reqs[r])
        /\ HasKey(reqs[r].payload, "timestamp")
        /\ now = 1
        /\ StoredBy(r).d.on = S("2024-01-01T00:00:00Z")
        /\ StoredBy(r).d.timestamp = PyDatetime(1)

\* an accepted delivery of the given event
AcceptedEvent(r, ev) == Accepted(reqs[r]) /\ reqs[r].event_type = S(ev)

\* the push delivery of the end-to-end scenario: ref refs/heads/main,
\* repository r, pusher u, head commit m at 2024-01-01T00:00:00Z
MainPush(p) ==
    /\ Field(p, "ref", PyNone) = PyStr(RefsHeads \o <<"main">>)
    /\ Field(Field(p, "repository", PyNone), "name", PyNone) = S("r")
    /\ Field(Field(p, "pusher", PyNone), "name", PyNone) = S("u")
    /\ Field(Field(p, "head_commit", PyNone), "message", PyNone) = S("m")
    /\ Field(Field(p, "head_commit", PyNone), "timestamp", PyNone) = S("2024-01-01T00:00:00Z")

\* C18: an accepted push delivery with ref refs/heads/main, repository r,
\* pusher u, head commit message m and head commit timestamp t is stored as
\* author u, pushed_to r:main, on t, sample m, and every later recent() holds
\* that record with the four required fields.
C18_PushEndToEnd ==
    \A r \in Requests :
        AcceptedEvent(r, "push") /\ MainPush(reqs[r].payload) =>
            /\ StoredBy(r).d.author = S("u")
            /\ StoredBy(r).d.pushed_to = PyStr(<<"r", ":", "main">>)
            /\ StoredBy(r).d.on = S("2024-01-01T00:00:00Z")
            /\ StoredBy(r).d.sample = S("m")
            /\ \A data \in get_recent_data(store, RecentDefault, TRUE) :
                 \E i \in 1..Len(data) :
                     /\ data[i] = StoredBy(r)
                     /\ \A k \in 1..Len(required_fields) : HasKey(data[i], required_fields[k])

C18_Witness ==
    \E r \in Requests :
        /\ AcceptedEvent(r, "push")
        /\ MainPush(reqs[r].payload)
        /\ Len(store) = 1
        /\ store[1].d.pushed_to = PyStr(<<"r", ":", "main">>)

\* C19: an accepted pull_request delivery with action a, number n, title t,
\* login u, base ref b and repository r is stored with sample "PR #n: t (a)",
\* pushed_to "r:b" and author u; an absent action counts as "unknown", number
\* as "unknown", title as "No title", base ref as "main", repository as
\* "unknown".
C19_PullRequestEndToEnd ==
    \A r \in Requests :
        AcceptedEvent(r, "pull_request") =>
            LET p == reqs[r].payload
                pr == Field(p, "pull_request", EmptyDict)
                a == Field(p, "action", S("unknown"))
                n == Field(pr, "number", S("unknown"))
                t == Field(pr, "title", PyStr(<<"No title">>))
                b == Field(Field(pr, "base", EmptyDict), "ref", S("main"))
                repo == Field(Field(p, "repository", EmptyDict), "name", S("unknown"))
                doc == StoredBy(r).d
            IN /\ doc.sample.s = <<"PR #">> \o Fmt(n) \o <<":", " ">> \o Fmt(t)
                                    \o <<" (">> \o Fmt(a) \o <<")">>
               /\ doc.pushed_to.s = Fmt(repo) \o <<":">> \o Fmt(b)
               /\ HasKey(Field(pr, "user", PyNone), "login") => doc.author = pr.d.user.d.login
               /\ (/\ a = S("opened") /\ n = PyInt(42) /\ t = S("T")
                   /\ b = S("main") /\ repo = S("r"))
                  => /\ doc.sample.s = <<"PR #", "42", ":", " ", "T", " (", "opened", ")">>
                     /\ doc.pushed_to.s = <<"r", ":", "main">>
                     /\ doc.author = S("u")

C19_Witness ==
    \E r \in Requests :
        /\ AcceptedEvent(r, "pull_request")
        /\ ~HasKey(reqs[r].payload, "action")
        /\ ~HasKey(reqs[r].payload, "repository")
        /\ StoredBy(r).d.sample.s = <<"PR #", "unknown", ":", " ", "No title", " (", "unknown", ")">>
        /\ StoredBy(r).d.pushed_to.s = <<"unknown", ":", "main">>

\* C20: a push with ref refs/heads/X is stored under branch X, whatever
\* non-empty name X is (names with "/" included); any other ref is the branch
\* verbatim; an absent ref counts as refs/heads/main.
C20_BranchIsRefSuffix ==
    \A r \in Requests :
        AcceptedEvent(r, "push") =>
            LET p == reqs[r].payload
                ref == Field(p, "ref", PyStr(RefsHeads \o <<"main">>)).s
                branch == IF StartsWith(ref, RefsHeads)
                          THEN SubSeq(ref, Len(RefsHeads) + 1, Len(ref)) ELSE ref
                repo == Field(Field(p, "repository", EmptyDict), "name", S("unknown"))
            IN StoredBy(r).d.pushed_to.s = Fmt(repo) \o <<":">> \o branch

\* the next step of the handler of delivery r
HandlerStep(r) ==
    \/ Verify(r)
    \/ Parse(r)
    \/ Dispatch(r)
    \/ Extract(r)
    \/ Validate(r)
    \/ Insert(r)

----------------------------------------------------------------------------
(* Reads of the store: GET /recent, get_data_since and the poller *)

\* request.args.get('limit', 10, type=int)
DefaultLimit == 10

\* timedelta(seconds=15) of DataDisplaySystem.__init__
StartLag == 15

\* lines 166-169 of the route: _id becomes str(_id), timestamp its isoformat()
Serialized(item) ==
    LET withId == DictSet(item.d, "_id", PyStr(Fmt(item.d._id)))
    IN PyDict(IF "timestamp" \in DOMAIN item.d
              THEN DictSet(withId, "timestamp", PyStr(Fmt(item.d.timestamp)))
              ELSE withId)

\* the route GET /recent: what it can read and answer; limit is the ?limit=
\* argument, Absent when the request has none
get_recent_data_route(coll, limit, db_ok) ==
    LET n == IF limit = Absent THEN DefaultLimit ELSE limit.n
    IN {[rows |-> data,
         response |-> Response(200, [data |-> PyList([i \in 1..Len(data) |-> Serialized(data[i])]),
                                     count |-> PyInt(Len(data))])] :
           data \in get_recent_data(coll, n, db_ok)}

Limits == {Absent} \cup {PyInt(n) : n \in 0..MaxLimit}

\* a client of the reads makes one read at a time and keeps its rows until it
\* is done with them (EndRead)
Recent ==
    /\ query = Unset
    /\ \E limit \in Limits : \E db_ok \in BOOLEAN :
         \E out \in get_recent_data_route(store, limit, db_ok) :
            query' = [op |-> "recent", arg |-> limit, db_ok |-> db_ok, stored |-> Len(store),
                      requery |-> FALSE, rows |-> out.rows, response |-> out.response]
    /\ UNCHANGED <<secret, conn, now, store, nextId, reqs, vin, vout, poller>>

\* max(doc["timestamp"] for doc in rows), rows not empty
MaxTimestamp(rows) ==
    CHOOSE m \in {TimestampOf(rows[i]) : i \in 1..Len(rows)} :
        \A i \in 1..Len(rows) : m >= TimestampOf(rows[i])

\* the latest read was a successful since that returned rows, nothing was
\* stored after it, and t is the newest timestamp it returned
Drains(t) ==
    /\ query # Unset
    /\ query.op = "since"
    /\ query.db_ok
    /\ query.stored = Len(store)
    /\ query.rows # <<>>
    /\ t = MaxTimestamp(query.rows)

\* a caller of get_data_since; requery marks the call that asks again with
\* the newest timestamp of the rows it just got
Since ==
    /\ \E since_timestamp \in -1..MaxClock : \E db_ok \in BOOLEAN :
         /\ query = Unset \/ Drains(since_timestamp)
         /\ \E data \in get_data_since(store, since_timestamp, db_ok) :
              query' = [op |-> "since", arg |-> PyDatetime(since_timestamp), db_ok |-> db_ok,
                        stored |-> Len(store), requery |-> Drains(since_timestamp),
                        rows |-> data, response |-> Unset]
    /\ UNCHANGED <<secret, conn, now, store, nextId, reqs, vin, vout, poller>>

EndRead ==
    /\ query # Unset
    /\ query' = Unset
    /\ UNCHANGED <<secret, conn, now, store, nextId, reqs, vin, vout, poller>>

\* DataDisplaySystem(): the watermark starts StartLag before the clock
DataDisplaySystem(clock) ==
    [pc |-> "idle", last_check_time |-> clock - StartLag, new_data |-> <<>>, seen |-> {}]

\* get_new_data, line 67: the fetch
PollFetch ==
    /\ poller.pc = "idle"
    /\ \E db_ok \in BOOLEAN :
         \E data \in get_data_since(store, poller.last_check_time, db_ok) :
            poller' = [poller EXCEPT !.pc = "fetched", !.new_data = data]
    /\ UNCHANGED <<secret, conn, now, store, nextId, reqs, vin, vout, query>>

\* the identifiers of the documents in rows
Ids(rows) == {rows[i].d._id : i \in 1..Len(rows)}

\* a poller that moves the watermark only when the fetch returned rows
PollMark_OnlyIfRows ==
    /\ poller.pc = "fetched"
    /\ \E clock \in now..MaxClock :
         /\ now' = clock
         /\ poller' = [poller EXCEPT !.pc = "idle",
                                     !.last_check_time =
                                         IF poller.new_data = <<>> THEN @ ELSE clock,
                                     !.seen = @ \cup Ids(poller.new_data)]
    /\ UNCHANGED <<secret, conn, store, nextId, reqs, vin, vout, query>>

\* a poller that sets the watermark StartLag before the clock, as __init__ does
PollMark_Lag ==
    /\ poller.pc = "fetched"
    /\ \E clock \in now..MaxClock :
         /\ now' = clock
         /\ poller' = [poller EXCEPT !.pc = "idle", !.last_check_time = clock - StartLag,
                                     !.seen = @ \cup Ids(poller.new_data)]
    /\ UNCHANGED <<secret, conn, store, nextId, reqs, vin, vout, query>>

\* get_new_data, lines 68-69: the watermark becomes the clock reading and
\* the fetched rows are returned; seen collects what the polls have returned
PollMark ==
    /\ poller.pc = "fetched"
    /\ \E clock \in now..MaxClock :
         /\ now' = clock
         /\ poller' = [poller EXCEPT !.pc = "idle", !.last_check_time = clock,
                                     !.seen = @ \cup Ids(poller.new_data)]
    /\ UNCHANGED <<secret, conn, store, nextId, reqs, vin, vout, query>>

\* the collection after accepted push deliveries handled at the clock
\* readings tss, in that order
RECURSIVE Stored(_)
Stored(tss) ==
    IF tss = <<>> THEN <<>>
    ELSE insert_repository_data(Stored(SubSeq(tss, 1, Len(tss) - 1)),
                                extract_push_data(PushPayload, tss[Len(tss)]),
                                tss[Len(tss)], TRUE, Len(tss)).coll

\* concurrent deliveries are stored in any order of their clock readings
Histories == UNION {[1..n -> 0..MaxClock] : n \in 0..MaxStored}

\* the request context of a push delivery that read the clock at line 65 and
\* has reached the insert
Pending(clock) ==
    validate_stage(extract_stage(dispatch_stage(Parsed(PushPayload, S("push"))), clock))

Latest(tss, clock) ==
    CHOOSE m \in {clock} \cup {tss[i] : i \in 1..Len(tss)} :
        \A i \in 1..Len(tss) : m >= tss[i] /\ m >= clock

InitStore ==
    /\ secret = <<>>
    /\ \E tss \in Histories : \E clock \in 0..MaxClock :
         /\ now = Latest(tss, clock)
         /\ store = Stored(tss)
         /\ nextId = Len(tss) + 1
         /\ reqs = [r \in Requests |-> IF r = 1 THEN Pending(clock) ELSE IdleRequest]
    /\ vin = Unset
    /\ vout = Unset
    /\ query = Unset
    /\ poller = Unset
    /\ conn = Unset

NextStore ==
    \/ \E r \in Requests : Insert(r)
    \/ \E r \in Requests : Close(r)
    \/ Recent
    \/ Since
    \/ EndRead

SpecStore == InitStore /\ [][NextStore]_vars

\* one earlier record, one delivery on its way, reads and a poller
InitOps ==
    /\ secret = <<>>
    /\ now = 0
    /\ store = Stored(<<0>>)
    /\ nextId = 2
    /\ reqs = [r \in Requests |-> IF r = 1 THEN Parsed(PushPayload, S("push")) ELSE IdleRequest]
    /\ vin = Unset
    /\ vout = Unset
    /\ query = Unset
    /\ poller = DataDisplaySystem(0)
    /\ conn = Unset

NextOps ==
    \/ \E r \in Requests : Dispatch(r)
    \/ \E r \in Requests : Extract(r)
    \/ \E r \in Requests : Validate(r)
    \/ \E r \in Requests : Insert(r)
    \/ \E r \in Requests : Close(r)
    \/ Recent
    \/ Since
    \/ EndRead
    \/ PollFetch
    \/ PollMark

SpecOps == InitOps /\ [][NextOps]_vars

----------------------------------------------------------------------------
(* Properties of the store and its reads *)

\* C14: whatever webhook, recent, since and poll steps are taken, the store
\* only grows at its end: every record already stored stays where it is with
\* the field values it was inserted with.
C14_AppendOnly ==
    [][Len(store') >= Len(store) /\ SubSeq(store', 1, Len(store)) = store]_vars

C14_Witness ==
    /\ Len(store) = 2
    /\ store[1] = Stored(<<0>>)[1]
    /\ query # Unset
    /\ query.stored = 2
    /\ poller.pc = "idle"
    /\ poller.last_check_time >= 0
    /\ poller.new_data # <<>>

\* the latest read is a successful one of the given kind, made on the
\* collection as it is now
LatestRead(op) ==
    /\ query # Unset
    /\ query.op = op
    /\ query.db_ok
    /\ query.stored = Len(store)

NewestFirstRows(rows) ==
    \A i, j \in 1..Len(rows) : i < j => TimestampOf(rows[i]) >= TimestampOf(rows[j])

\* rows holds documents of the store, none twice
FromStore(rows) ==
    /\ \A i \in 1..Len(rows) : \E k \in 1..Len(store) : rows[i] = store[k]
    /\ \A i, j \in 1..Len(rows) : i # j => rows[i] # rows[j]

\* C16: recent(limit) returns at most limit records for every limit >= 0,
\* newest first, and they are the newest stored ones (exactly limit of them
\* when more are stored); GET /recent without a limit uses 10, and count is
\* the number of records returned.
C16_RecentReturnsNewest ==
    LatestRead("recent") =>
        LET limit == IF query.arg = Absent THEN DefaultLimit ELSE query.arg.n
            rows == query.rows
        IN /\ Len(rows) <= limit
           /\ Len(rows) = IF Len(store) < limit THEN Len(store) ELSE limit
           /\ NewestFirstRows(rows)
           /\ FromStore(rows)
           /\ \A k \in 1..Len(store) :
                (\A i \in 1..Len(rows) : rows[i] # store[k]) =>
                    \A i \in 1..Len(rows) : TimestampOf(rows[i]) >= TimestampOf(store[k])
           /\ query.response.status = 200
           /\ query.response.body.d.count = PyInt(Len(rows))
           /\ Len(query.response.body.d.data.l) = Len(rows)

\* C17: since(T) returns exactly the stored records whose timestamp is
\* strictly greater than T, newest first; asking again, with nothing stored
\* in between, with the newest timestamp of the returned records returns
\* nothing.
C17_SinceStrictlyAfter ==
    LatestRead("since") =>
        /\ NewestFirstRows(query.rows)
        /\ FromStore(query.rows)
        /\ \A k \in 1..Len(store) :
             (TimestampOf(store[k]) > query.arg.n) <=>
                 (\E i \in 1..Len(query.rows) : query.rows[i] = store[k])
        /\ query.requery => query.rows = <<>>

C17_Witness ==
    /\ LatestRead("since")
    /\ query.requery
    /\ query.rows = <<>>
    /\ Len(store) >= 2
    /\ \E k \in 1..Len(store) : TimestampOf(store[k]) = query.arg.n
    /\ \E k \in 1..Len(store) : TimestampOf(store[k]) < query.arg.n

----------------------------------------------------------------------------
(* Properties of the responses *)

\* the stage at which the handler returned
LastStage(q) == q.trace[Len(q.trace)]

\* the handler returned on a failure: bad signature, malformed request,
\* extraction failure, validation failure or store failure
Failed(q) ==
    \/ LastStage(q) \in {"verify", "parse", "extract", "validate"}
    \/ LastStage(q) = "insert" /\ ~Truthy(q.result_id)

\* the handler has started and not returned yet
Running(q) == q.pc \notin {"idle", "done", "closed"}

\* C15: every request to POST /webhook gets exactly one response, with status
\* 401, 400, 200 or 500; a request that failed (bad signature, malformed
\* request, extraction, validation or store failure) gets a non-200 status
\* and an error body, never a 200.  Termination: a handler that has not
\* returned can always take its next step, whatever the other handlers do,
\* every step takes it one stage further, and there are Len(StageOrder)
\* stages.
C15_OneResponsePerRequest ==
    /\ [](\A r \in Requests :
            Done(r) =>
              /\ Status(r) \in {401, 400, 200, 500}
              /\ Failed(reqs[r]) => Status(r) # 200 /\ HasKey(reqs[r].response.body, "error")
              /\ ~Failed(reqs[r]) => Status(r) = 200)
    /\ [](\A r \in Requests :
            Running(reqs[r]) =>
              /\ ENABLED HandlerStep(r)
              /\ Len(reqs[r].trace) < Len(StageOrder)
              /\ reqs[r].response = Unset)
    /\ [][\A r \in Requests :
            /\ (Running(reqs[r]) /\ reqs'[r] # reqs[r]) =>
                   Len(reqs'[r].trace) = Len(reqs[r].trace) + 1
            /\ reqs[r].response # Unset =>
                   reqs'[r].response = reqs[r].response \/ reqs'[r].pc = "closed"]_vars

C15_Witness ==
    \E r \in Requests :
        /\ Done(r)
        /\ LastStage(reqs[r]) = "insert"
        /\ reqs[r].result_id = PyNone
        /\ Status(r) = 500
        /\ HasKey(reqs[r].response.body, "error")

----------------------------------------------------------------------------
(* Properties of the extractors and the validator *)

\* the extractor of the given event has returned a record for delivery r
Extracted(r, ev) ==
    /\ reqs[r].event_type = S(ev)
    /\ Ran(reqs[r], "extract")
    /\ reqs[r].data.t = "dict"

\* payload.pusher.name and payload.head_commit.author.name, Absent when the
\* payload has no such field
PusherName(p) == Field(Field(p, "pusher", EmptyDict), "name", Absent)
CommitAuthorName(p) ==
    Field(Field(Field(p, "head_commit", EmptyDict), "author", EmptyDict), "name", Absent)

\* C21 (as stated): author is pusher.name when that is present and not
\* "unknown"; otherwise head_commit.author.name when present; otherwise
\* "unknown".
C21_AuthorFallback ==
    \A r \in Requests :
        Extracted(r, "push") =>
            LET pn == PusherName(reqs[r].payload)
                cn == CommitAuthorName(reqs[r].payload)
            IN reqs[r].data.d.author =
                 IF pn # Absent /\ pn # S("unknown") THEN pn
                 ELSE IF cn # Absent THEN cn ELSE S("unknown")

\* C21 (amended): author is pusher.name when that is present, not null, not
\* empty and not "unknown"; otherwise head_commit.author.name when present;
\* otherwise "unknown".
C21_AuthorFallbackOnFalsy ==
    \A r \in Requests :
        Extracted(r, "push") =>
            LET pn == PusherName(reqs[r].payload)
                cn == CommitAuthorName(reqs[r].payload)
            IN reqs[r].data.d.author =
                 IF pn # Absent /\ Truthy(pn) /\ pn # S("unknown") THEN pn
                 ELSE IF cn # Absent THEN cn ELSE S("unknown")

C21_Witness ==
    \E r \in Requests :
        /\ Extracted(r, "push")
        /\ PusherName(reqs[r].payload) = PyStr(<<>>)
        /\ CommitAuthorName(reqs[r].payload) = S("a")
        /\ reqs[r].data.d.author = S("a")

\* C22: on every payload value, objects with missing, null or wrongly typed
\* nested fields and non-objects included, an extractor returns a record or
\* None and raises nothing; a payload it returns None for is answered 400,
\* and no 500 comes from the payload's shape (only from the store).
C22_ExtractorsTotal ==
    \A r \in Requests :
        Ran(reqs[r], "extract") =>
            /\ \/ reqs[r].data = PyNone
               \/ /\ reqs[r].data.t = "dict"
                  /\ DOMAIN reqs[r].data.d = {"author", "pushed_to", "on", "timestamp", "sample"}
            /\ (Done(r) /\ reqs[r].data = PyNone) =>
                   Status(r) = 400 /\ LastStage(reqs[r]) = "extract"
            /\ (Done(r) /\ Status(r) = 500) =>
                   LastStage(reqs[r]) = "insert" /\ reqs[r].result_id = PyNone

C22_Witness ==
    \E r \in Requests :
        /\ Done(r)
        /\ reqs[r].payload \in NonObjectPayloads
        /\ reqs[r].event_type = S("pull_request")
        /\ reqs[r].data = PyNone
        /\ Status(r) = 400

----------------------------------------------------------------------------
(* Direct calls of the validator and of the store insert on one record *)

FieldValues == {Absent, S("x"), PyStr(<<>>), PyInt(1), PyNone}

\* the dicts a caller can hand over: every required field absent, a string,
\* empty, a number or null; with or without a timestamp
Records ==
    {Obj([author |-> a, pushed_to |-> p, on |-> o, sample |-> s, timestamp |-> ts]) :
        a \in FieldValues, p \in FieldValues, o \in FieldValues, s \in FieldValues,
        ts \in {Absent, PyDatetime(0)}}

InitRecord ==
    /\ secret = <<>>
    /\ now = 0
    /\ store = <<>>
    /\ nextId = 1
    /\ reqs = [r \in Requests |-> IdleRequest]
    /\ vin \in Records
    /\ vout = [validated |-> Unset, inserted |-> Unset]
    /\ query = Unset
    /\ poller = Unset
    /\ conn = Unset

\* validate_repository_data(vin)
ValidateCall ==
    /\ vout.validated = Unset
    /\ vout' = [vout EXCEPT !.validated = validate_repository_data(vin)]
    /\ UNCHANGED <<secret, conn, now, store, nextId, reqs, vin, query, poller>>

\* repo_model.insert_repository_data(vin); the clock is read at line 38
InsertCall ==
    /\ vout.inserted = Unset
    /\ \E db_ok \in BOOLEAN : \E clock \in now..MaxClock :
         LET ins == insert_repository_data(store, vin, clock, db_ok, nextId)
         IN /\ now' = clock
            /\ store' = ins.coll
            /\ nextId' = IF Len(ins.coll) > Len(store) THEN nextId + 1 ELSE nextId
            /\ vout' = [vout EXCEPT !.inserted = [result |-> ins.result, db_ok |-> db_ok]]
    /\ UNCHANGED <<secret, conn, reqs, vin, query, poller>>

NextRecord == ValidateCall \/ InsertCall

SpecRecord == InitRecord /\ [][NextRecord]_vars

\* the first of author, pushed_to, on, sample that rec lacks or holds as a
\* non-string; "none" when there is no such field
FirstOffending(rec) ==
    LET IsStr(k) == HasKey(rec, k) /\ rec.d[k].t = "str"
    IN IF ~IsStr("author") THEN "author"
       ELSE IF ~IsStr("pushed_to") THEN "pushed_to"
       ELSE IF ~IsStr("on") THEN "on"
       ELSE IF ~IsStr("sample") THEN "sample"
       ELSE "none"

\* the field names a reason mentions
Named(message) ==
    {message[i] : i \in 1..Len(message)} \cap {"author", "pushed_to", "on", "sample"}

\* C23: the validator checks author, pushed_to, on, sample in that order and
\* fails with a reason naming the first of them that is missing or not a
\* string (an integer on is rejected naming on); it returns valid exactly
\* when all four are present strings.
C23_FirstOffendingFieldNamed ==
    vout.validated # Unset =>
        /\ vout.validated.is_valid = (FirstOffending(vin) = "none")
        /\ ~vout.validated.is_valid => Named(vout.validated.message) = {FirstOffending(vin)}
        /\ (HasKey(vin, "on") /\ vin.d.on = PyInt(1) /\ FirstOffending(vin) = "on") =>
               vout.validated.message = <<"Field ", "on", " must be of type ", "str">>

C23_Witness ==
    /\ vout.validated # Unset
    /\ ~vout.validated.is_valid
    /\ HasKey(vin, "on") /\ vin.d.on = PyInt(1)
    /\ ~HasKey(vin, "sample")
    /\ Named(vout.validated.message) = {"on"}

\* the number of ':' in a string
Colons(s) == Cardinality({i \in 1..Len(s) : s[i] = ":"})

\* payload.repository.name and payload.ref with their defaults
RepositoryName(p) == Field(Field(p, "repository", EmptyDict), "name", S("unknown"))
Ref(p) == Field(p, "ref", PyStr(RefsHeads \o <<"main">>))

\* repository name and ref are strings without ':'
ExtractedNormally(p) ==
    /\ RepositoryName(p).t = "str" /\ Colons(RepositoryName(p).s) = 0
    /\ Ref(p).t = "str" /\ Colons(Ref(p).s) = 0

\* C24: when repository name and branch of a push are extracted normally
\* (no ':' in either), pushed_to is the repository, one ':' and the branch,
\* so it holds exactly one ':'.
C24_OneColon ==
    \A r \in Requests :
        (Extracted(r, "push") /\ ExtractedNormally(reqs[r].payload)) =>
            LET repo == RepositoryName(reqs[r].payload).s
                ref == Ref(reqs[r].payload).s
                pushed_to == reqs[r].data.d.pushed_to.s
                branch == SubSeq(pushed_to, Len(repo) + 2, Len(pushed_to))
            IN /\ Colons(pushed_to) = 1
               /\ Len(pushed_to) > Len(repo)
               /\ SubSeq(pushed_to, 1, Len(repo)) = repo
               /\ pushed_to[Len(repo) + 1] = ":"
               /\ branch = SubSeq(ref, Len(ref) - Len(branch) + 1, Len(ref))
               /\ ~StartsWith(ref, RefsHeads) => branch = ref

C24_Witness ==
    \E r \in Requests :
        /\ Extracted(r, "push")
        /\ ExtractedNormally(reqs[r].payload)
        /\ Ref(reqs[r].payload) = PyStr(<<"refs", "/", "tags", "/", "v1">>)
        /\ reqs[r].data.d.pushed_to.s = <<"r", ":", "refs", "/", "tags", "/", "v1">>

\* pull_request.created_at and pull_request.updated_at, Absent when missing
CreatedAt(p) == Field(Field(p, "pull_request", EmptyDict), "created_at", Absent)
UpdatedAt(p) == Field(Field(p, "pull_request", EmptyDict), "updated_at", Absent)

\* the current UTC time in ISO-8601 with a trailing Z, read while the
\* delivery was handled
IsNowZ(v) == \E clock \in 0..now : v = IsoNowZ(clock)

\* C25 (as stated): on of a pull request record is created_at when present,
\* otherwise updated_at when present, otherwise the current UTC time in
\* ISO-8601 with a trailing Z; on is never absent or empty.
C25_OnFromCreatedAt ==
    \A r \in Requests :
        Extracted(r, "pull_request") =>
            LET ca == CreatedAt(reqs[r].payload)
                ua == UpdatedAt(reqs[r].payload)
                on == reqs[r].data.d.on
            IN /\ IF ca # Absent THEN on = ca
                  ELSE IF ua # Absent THEN on = ua
                  ELSE IsNowZ(on)
               /\ Truthy(on)

\* C25 (amended): on is created_at when that is present and neither null nor
\* empty, otherwise updated_at when that is present and neither null nor
\* empty, otherwise the current UTC time in ISO-8601 with a trailing Z; on is
\* never absent or empty.
C25_OnFromFirstNonEmpty ==
    \A r \in Requests :
        Extracted(r, "pull_request") =>
            LET ca == CreatedAt(reqs[r].payload)
                ua == UpdatedAt(reqs[r].payload)
                on == reqs[r].data.d.on
            IN /\ IF ca # Absent /\ Truthy(ca) THEN on = ca
                  ELSE IF ua # Absent /\ Truthy(ua) THEN on = ua
                  ELSE IsNowZ(on)
               /\ Truthy(on)

C25_Witness ==
    \E r \in Requests :
        /\ Extracted(r, "pull_request")
        /\ CreatedAt(reqs[r].payload) = PyStr(<<>>)
        /\ UpdatedAt(reqs[r].payload) = S("2024-01-02T00:00:00Z")
        /\ reqs[r].data.d.on = S("2024-01-02T00:00:00Z")

\* rec has the four required fields
HasRequired(rec) == \A k \in 1..Len(required_fields) : HasKey(rec, required_fields[k])

\* the insert call has been made and returned an identifier
Inserted == vout.inserted # Unset /\ Truthy(vout.inserted.result)

\* C26: the store insert of a record without timestamp stores it with
\* timestamp set to the server time read during the insert (a timestamp handed
\* over is kept), and the validator accepts a record that has the four
\* required string fields and no timestamp.
C26_TimestampDefault ==
    /\ (vout.inserted # Unset /\ vout.inserted.db_ok /\ HasRequired(vin)) => Inserted
    /\ Inserted =>
         /\ Len(store) = 1
         /\ store[1].d._id = vout.inserted.result
         /\ \A k \in DOMAIN vin.d : store[1].d[k] = vin.d[k]
         /\ DOMAIN store[1].d = DOMAIN vin.d \cup {"_id", "timestamp"}
         /\ ~HasKey(vin, "timestamp") => store[1].d.timestamp = PyDatetime(now)
    /\ (vout.validated # Unset /\ FirstOffending(vin) = "none" /\ ~HasKey(vin, "timestamp"))
         => vout.validated.is_valid

C26_Witness ==
    /\ Inserted
    /\ vout.validated # Unset
    /\ vout.validated.is_valid
    /\ ~HasKey(vin, "timestamp")
    /\ now = 1
    /\ store[1].d.timestamp = PyDatetime(1)

----------------------------------------------------------------------------
(* Two deliveries handled at the same time *)

Pair == {1, 2}

\* a well-formed, correctly signed push or pull_request delivery as the
\* handler finds it at line 106
Delivered(name) ==
    [IdleRequest EXCEPT !.pc = "verify",
                        !.body = BodyNamed(name),
                        !.signature = Sign(Key, BodyNamed(name)),
                        !.event = IF name = "push" THEN S("push") ELSE S("pull_request")]

InitPair ==
    /\ secret \in {<<>>, Key}
    /\ now = 0
    /\ store = <<>>
    /\ nextId = 1
    /\ reqs \in [Pair -> {Delivered("push"), Delivered("pr")}]
    /\ vin = Unset
    /\ vout = Unset
    /\ query = Unset
    /\ poller = Unset
    /\ conn = Unset

NextPair == \E r \in Pair : HandlerStep(r)

SpecPair == InitPair /\ [][NextPair]_vars

\* the database refused the write of this delivery
StoreFailure(q) == q.pc = "done" /\ LastStage(q) = "insert" /\ q.result_id = PyNone

\* the stored documents with the identifier delivery r was answered with
StoredFor(r) == {i \in 1..Len(store) : store[i].d._id = reqs[r].result_id}

\* C27: two acceptable deliveries handled concurrently both end accepted under
\* every interleaving of their steps, with one new record each (none lost,
\* none written twice, identifiers distinct); what one delivery gets depends
\* on its own payload, clock reading and write only.
C27_ConcurrentDeliveries ==
    /\ \A r \in Pair :
         /\ Done(r) => Accepted(reqs[r]) \/ StoreFailure(reqs[r])
         /\ Accepted(reqs[r]) =>
              /\ Cardinality(StoredFor(r)) = 1
              /\ reqs[r].response.body.d.id = PyStr(Fmt(reqs[r].result_id))
              /\ \A i \in StoredFor(r) : \A k \in DOMAIN reqs[r].data.d :
                     store[i].d[k] = reqs[r].data.d[k]
              /\ reqs[r].data \in
                   {extract_push_data(PushPayload, TimestampOf(reqs[r].data)),
                    extract_pull_request_data(PullRequestPayload, TimestampOf(reqs[r].data))}
    /\ Len(store) = Cardinality({r \in Pair : Accepted(reqs[r])})
    /\ \A i, j \in 1..Len(store) : i # j => store[i].d._id # store[j].d._id
    /\ (\A r \in Pair : Done(r) /\ ~StoreFailure(reqs[r])) =>
           Len(store) = 2 /\ \A r \in Pair : Accepted(reqs[r])

C27_Witness ==
    /\ \A r \in Pair : Accepted(reqs[r])
    /\ Len(store) = 2
    /\ store[1].d._id = reqs[2].result_id
    /\ store[2].d._id = reqs[1].result_id
    /\ TimestampOf(store[1]) > TimestampOf(store[2])
    /\ reqs[1].body = reqs[2].body

----------------------------------------------------------------------------
(* Properties of the poller *)

\* a step of the poller from state a to state b
Fetches == poller.pc = "idle" /\ poller'.pc = "fetched"
Marks == poller.pc = "fetched" /\ poller'.pc = "idle"

\* C28: every poll sets last_check_time to the clock reading taken after its
\* fetch, whether the fetch returned rows or not, and the watermark never
\* moves backwards.
C28_WatermarkAdvances ==
    /\ [](poller.pc = "fetched" => ENABLED PollMark)
    /\ [][/\ poller'.last_check_time >= poller.last_check_time
          /\ Marks => poller'.last_check_time = now' /\ now' >= now
          /\ ~Marks => poller'.last_check_time = poller.last_check_time]_vars

C28_Witness ==
    /\ poller.pc = "idle"
    /\ poller.new_data = <<>>
    /\ poller.last_check_time = 1
    /\ poller.seen # {}

\* the watermark the poller started with
InitialWatermark == 0 - StartLag

\* C29: with deliveries and polls interleaved, no stored record is skipped by
\* the watermark: a record stored with a timestamp after the poller's initial
\* watermark has been returned by a poll, is in the rows the running poll has
\* fetched, or is still after the watermark, where the next poll finds it.
C29_NoRecordSkipped ==
    \A i \in 1..Len(store) :
        TimestampOf(store[i]) > InitialWatermark =>
            \/ store[i].d._id \in poller.seen
            \/ poller.pc = "fetched" /\ store[i].d._id \in Ids(poller.new_data)
            \/ TimestampOf(store[i]) > poller.last_check_time

\* C30: no record is returned by two polls: the rows a poll fetches hold no
\* record an earlier poll returned, and no record twice.
C30_NoRecordTwice ==
    /\ [][Fetches => Ids(poller'.new_data) \cap poller.seen = {}]_vars
    /\ [](\A i, j \in 1..Len(poller.new_data) :
             i # j => poller.new_data[i].d._id # poller.new_data[j].d._id)

C30_Witness ==
    /\ poller.pc = "idle"
    /\ Cardinality(poller.seen) = 2
    /\ Len(poller.new_data) = 1
    /\ Len(store) = 2

\* C31: a poller read never prevents an ingestion request from completing:
\* whatever the poller is doing (idle or sleeping between polls, or between
\* its fetch and its watermark update), a handler that has not returned can
\* take its next step, each step takes it one stage further towards its
\* response, a handler step leaves the poller alone, and a poller step leaves
\* the requests and the store alone.
C31_PollerNeverBlocksIngestion ==
    /\ [](\A r \in Requests :
            Running(reqs[r]) =>
              /\ poller.pc \in {"idle", "fetched"}
              /\ ENABLED HandlerStep(r)
              /\ Len(reqs[r].trace) < Len(StageOrder))
    /\ [][/\ \A r \in Requests :
               (Running(reqs[r]) /\ reqs'[r] # reqs[r]) =>
                   /\ Len(reqs'[r].trace) = Len(reqs[r].trace) + 1
                   /\ poller' = poller
          /\ poller' # poller => reqs' = reqs /\ store' = store]_vars

\* the delivery was stored between a poll's fetch and its watermark update
C31_Witness ==
    /\ poller.pc = "fetched"
    /\ poller.new_data # <<>>
    /\ Done(1)
    /\ Status(1) = 200
    /\ StoredFor(1) # {}
    /\ reqs[1].result_id \notin Ids(poller.new_data)

----------------------------------------------------------------------------
(* The store connection: MongoDBConnection *)

\* connect(self, max_retries=3, retry_delay=2)
DefaultRetries == 3
DefaultDelay == 2

\* the largest max_retries of a direct call, and the number of calls made
\* after the constructor's
MaxRetries == 3
MaxCalls == 2

Retries == 0..MaxRetries
\* time.sleep raises ValueError on a negative delay
Delays == {0 - 1, 0, DefaultDelay}

\* MongoClient(...): the k-th client object made
Client(k) == [t |-> "client", id |-> k]

\* what a ping can do: answer, raise ConnectionFailure (or its subclass
\* ServerSelectionTimeoutError) within the 5 s timeouts, or raise another
\* exception
PingOutcomes == {"ok", "ConnectionFailure", "Exception"}

\* connect() is entered: the loop of line 29 starts at attempt 0, or ends at
\* once when range(max_retries) is empty (line 56)
Enter(c, caller, max_retries, retry_delay) ==
    LET d == [c EXCEPT !.caller = caller, !.max_retries = max_retries,
                       !.retry_delay = retry_delay, !.attempt = 0,
                       !.pings = <<>>, !.slept = <<>>,
                       !.result = Unset, !.handed = Unset, !.calls = @ + 1]
    IN IF max_retries > 0
       THEN [d EXCEPT !.pc = "construct"]
       ELSE [d EXCEPT !.pc = "idle", !.result = PyFalse,
                      !.handed = IF caller = "get_client" THEN d._client ELSE Unset]

\* connect() returns value (or raises, value = Raise); get_client, line 62,
\* then hands out self._client
Return(c, value) ==
    [c EXCEPT !.pc = "idle", !.result = value,
              !.handed = IF c.caller # "get_client" THEN Unset
                         ELSE IF value = Raise THEN Raise ELSE c._client]

\* the class attributes of lines 13-14 and __init__ entering connect()
MongoDBConnection ==
    Enter([_client |-> PyNone, pc |-> "idle", caller |-> "none",
           max_retries |-> 0, retry_delay |-> 0, attempt |-> 0,
           pings |-> <<>>, slept |-> <<>>, result |-> Unset, handed |-> Unset,
           made |-> 0, pinged |-> {}, calls |-> 0 - 1],
          "__init__", DefaultRetries, DefaultDelay)

InitConnect ==
    /\ secret = <<>>
    /\ now = 0
    /\ store = <<>>
    /\ nextId = 1
    /\ reqs = [r \in Requests |-> IdleRequest]
    /\ vin = Unset
    /\ vout = Unset
    /\ query = Unset
    /\ poller = Unset
    /\ conn = MongoDBConnection

\* a call of connect(max_retries, retry_delay)
ConnectCall ==
    /\ conn.pc = "idle"
    /\ conn.calls < MaxCalls
    /\ \E max_retries \in Retries : \E retry_delay \in Delays :
         conn' = Enter(conn, "connect", max_retries, retry_delay)
    /\ UNCHANGED <<secret, now, store, nextId, reqs, vin, vout, query, poller>>

\* get_client(): connects first when there is no client, then returns
\* self._client
GetClient ==
    /\ conn.pc = "idle"
    /\ conn.calls < MaxCalls
    /\ conn' = IF conn._client = PyNone
               THEN Enter(conn, "get_client", DefaultRetries, DefaultDelay)
               ELSE [conn EXCEPT !.caller = "get_client", !.handed = conn._client,
                                 !.calls = @ + 1]
    /\ UNCHANGED <<secret, now, store, nextId, reqs, vin, vout, query, poller>>

\* lines 32-37: self._client = MongoClient(...); a constructor that raises
\* (a bad URI) leaves self._client as it was and ends connect at line 54
Construct ==
    /\ conn.pc = "construct"
    /\ \E made \in BOOLEAN :
         conn' = IF made
                 THEN [conn EXCEPT !._client = Client(conn.made + 1),
                                   !.made = @ + 1, !.pc = "ping"]
                 ELSE Return(conn, PyFalse)
    /\ UNCHANGED <<secret, now, store, nextId, reqs, vin, vout, query, poller>>

\* a connect that sleeps after every failed attempt, the last included
Ping_SleepAlways ==
    /\ conn.pc = "ping"
    /\ \E outcome \in PingOutcomes :
         LET c == [conn EXCEPT !.pings = Append(@, outcome)]
         IN conn' =
              CASE outcome = "ok" ->
                     Return([c EXCEPT !.pinged = @ \cup {c._client.id}], PyTrue)
                [] outcome = "ConnectionFailure" -> [c EXCEPT !.pc = "sleep"]
                [] OTHER -> Return(c, PyFalse)
    /\ UNCHANGED <<secret, now, store, nextId, reqs, vin, vout, query, poller>>

\* lines 40-54: the ping answers and connect returns True; a connection
\* failure leads to the sleep when another attempt is left and to False
\* otherwise; any other exception ends connect with False
Ping ==
    /\ conn.pc = "ping"
    /\ \E outcome \in PingOutcomes :
         LET c == [conn EXCEPT !.pings = Append(@, outcome)]
         IN conn' =
              CASE outcome = "ok" ->
                     Return([c EXCEPT !.pinged = @ \cup {c._client.id}], PyTrue)
                [] outcome = "ConnectionFailure" ->
                     IF c.attempt < c.max_retries - 1
                     THEN [c EXCEPT !.pc = "sleep"]
                     ELSE Return(c, PyFalse)
                [] OTHER -> Return(c, PyFalse)
    /\ UNCHANGED <<secret, now, store, nextId, reqs, vin, vout, query, poller>>

\* line 48: time.sleep(retry_delay), then the next attempt; a negative
\* delay raises ValueError inside the except clause, which leaves connect
Sleep ==
    /\ conn.pc = "sleep"
    /\ conn' = IF conn.retry_delay < 0
               THEN Return(conn, Raise)
               ELSE [conn EXCEPT !.slept = Append(@, conn.retry_delay),
                                 !.attempt = @ + 1, !.pc = "construct"]
    /\ UNCHANGED <<secret, now, store, nextId, reqs, vin, vout, query, poller>>

NextConnect ==
    \/ ConnectCall
    \/ GetClient
    \/ Construct
    \/ Ping
    \/ Sleep

SpecConnect == InitConnect /\ [][NextConnect]_vars

----------------------------------------------------------------------------
(* Properties of the store connection *)

\* the steps of a running connect()
ConnectStep == Construct \/ Ping \/ Sleep

\* the steps a running connect() has left at most: three per attempt
Remaining(c) ==
    3 * (c.max_retries - c.attempt)
      - (CASE c.pc = "construct" -> 0 [] c.pc = "ping" -> 1 [] OTHER -> 2)

ConnectionFailures(pings) ==
    \A i \in 1..Len(pings) : pings[i] = "ConnectionFailure"

\* C32: connect(max_retries, retry_delay) always terminates: a running
\* connect can take its next step and every step leaves fewer steps to take;
\* it makes at most max_retries attempts, returns True at the first attempt
\* whose ping succeeds, sleeps retry_delay after a failed attempt that is
\* followed by another and not after the last, and returns False once
\* max_retries attempts have failed with a connection failure.
C32_ConnectTerminates ==
    /\ [](conn.pc # "idle" =>
            /\ ENABLED ConnectStep
            /\ conn.attempt < conn.max_retries
            /\ Remaining(conn) > 0)
    /\ [][(conn.pc # "idle" /\ conn' # conn) =>
            conn'.pc = "idle" \/ Remaining(conn') < Remaining(conn)]_vars
    /\ [](/\ Len(conn.pings) <= conn.attempt + 1
          /\ conn.max_retries > 0 => conn.attempt + 1 <= conn.max_retries
          /\ conn.max_retries <= 0 => conn.pings = <<>> /\ conn.pc = "idle")
    /\ [](\A i \in 1..Len(conn.pings) :
            conn.pings[i] = "ok" =>
              i = Len(conn.pings) /\ conn.pc = "idle" /\ conn.result = PyTrue)
    /\ [](conn.result = PyTrue =>
            conn.pings # <<>> /\ conn.pings[Len(conn.pings)] = "ok")
    /\ [](/\ Len(conn.slept) = conn.attempt
          /\ \A i \in 1..Len(conn.slept) :
               conn.slept[i] = conn.retry_delay /\ conn.pings[i] = "ConnectionFailure")
    /\ [](( /\ conn.pc = "idle"
            /\ conn.max_retries > 0
            /\ Len(conn.pings) = conn.max_retries
            /\ ConnectionFailures(conn.pings)) =>
              conn.result = PyFalse /\ Len(conn.slept) = conn.max_retries - 1)

C32_Witness ==
    /\ conn.pc = "idle"
    /\ conn.caller = "connect"
    /\ conn.max_retries = 2
    /\ conn.result = PyFalse
    /\ conn.pings = <<"ConnectionFailure", "ConnectionFailure">>
    /\ conn.slept = <<DefaultDelay>>

\* C35: after connect() has returned False the singleton holds no client
\* handle, so that a later get_client() connects anew; a client handle is
\* retained only after a ping on it succeeded, and get_client() hands out no
\* client whose ping never succeeded.
C35_ClientOnlyAfterPing ==
    /\ (conn.pc = "idle" /\ conn.result = PyFalse) => conn._client = PyNone
    /\ (conn.pc = "idle" /\ conn._client # PyNone) => conn._client.id \in conn.pinged
    /\ conn.handed \notin {Unset, PyNone, Raise} => conn.handed.id \in conn.pinged

----------------------------------------------------------------------------
(* Properties of the store's field check *)

\* C33: the store insert of a record missing any of author, pushed_to, on,
\* sample returns the failure value None, no identifier, and leaves the
\* collection as it was; no exception escapes insert_repository_data,
\* whatever the record and whatever the database does.
C33_MissingFieldFailsCleanly ==
    /\ []((vout.inserted # Unset /\ ~HasRequired(vin)) =>
             vout.inserted.result = PyNone /\ store = <<>>)
    /\ [](vout.inserted # Unset => vout.inserted.result # Raise)
    /\ [][(vout'.inserted # vout.inserted /\ ~HasRequired(vin)) =>
             store' = store /\ nextId' = nextId]_vars

\* the database would have taken the write: the field check refused it
C33_Witness ==
    /\ vout.inserted # Unset
    /\ vout.inserted.db_ok
    /\ ~HasRequired(vin)
    /\ HasKey(vin, "author")
    /\ vout.inserted.result = PyNone
    /\ store = <<>>

\* what insert_repository_data returns for data when the database takes
\* the write
WithDatabase(data) == insert_repository_data(store, data, now, TRUE, nextId).result

\* C34: every record validate_repository_data accepts passes the required
\* field check of insert_repository_data, so on the ingestion path a store
\* failure (500) comes from the database operation only: the same insert
\* succeeds when the database takes the write.  The first conjunct is about
\* the two functions on every record of Records and does not depend on the
\* state; the others follow each delivery from validation to its response.
C34_ValidatedPassesStoreCheck ==
    /\ \A rec \in Records :
         LET v == validate_repository_data(rec)
         IN (v # Raise /\ v.is_valid) => HasRequired(rec) /\ Truthy(WithDatabase(rec))
    /\ [](\A r \in Requests : reqs[r].pc = "insert" => HasRequired(reqs[r].data))
    /\ [][\A r \in Requests :
            (reqs[r].pc = "insert" /\ StoreFailure(reqs'[r])) =>
                /\ Truthy(WithDatabase(reqs[r].data))
                /\ store' = store]_vars

C34_Witness ==
    \E r \in Requests :
        /\ StoreFailure(reqs[r])
        /\ Status(r) = 500
        /\ HasRequired(reqs[r].data)
        /\ validate_repository_data(reqs[r].data).is_valid

====
